---------------------------- MODULE Spec2Model ----------------------------
(* AutoBt: synthetic OHLCV generators (src/src/data_generators) and the    *)
(* performance-metrics engine (src/src/utils/metrics.py).                  *)
(*                                                                         *)
(* Floating-point values are carried as extended rationals: a record       *)
(* [k, n, d] with k one of "fin" (the rational n/d in lowest terms),       *)
(* "nan", "inf", "ninf". The arithmetic follows IEEE-754 for the special   *)
(* values (x/0, inf-inf, 0*inf, comparisons with NaN). Rounding is         *)
(* modelled where the code tests a computed value against exactly zero,    *)
(* the mean inside Series.mean() and Series.std(): a binary format with a  *)
(* significand of MantissaBits bits, round-half-to-even. Elsewhere finite  *)
(* values are exact, and overflow is not modelled.                         *)
EXTENDS Integers, Sequences, FiniteSets, TLC

VARIABLES
    portfolio_values,   \* metrics engine: the values of the input series
    pv_index,           \* metrics engine: its timestamp index, in days
    periods_per_year,   \* metrics engine: the annualisation argument
    metrics,            \* metrics engine: the returned dictionary, or NoResult
    returns_arg,        \* metrics engine: a returns series of the caller's
    returned,           \* metrics engine: function name -> what the function
                        \* returned when called on its own, or NoResult
    np_state,           \* the process-wide numpy random state (np.random)
    py_state,           \* the process-wide state of Python's random module
    gens,               \* the generator objects: instance -> its fields
    base_data,          \* instance -> the base_data of its latest generate()
    out,                \* instance -> what its latest generate() returned
    calls,              \* instance -> number of generate() calls made on it
    feed,               \* instance -> its to_bt_feed() call: the frame as it
                        \* was passed and as the call left it, or NoResult
    factory,            \* entry point -> what its get_data_generator() call
                        \* returned or raised, or NoResult
    results_file,       \* results/<strategy>_optimization_results.json: NoFile,
                        \* CorruptFile or the saved dictionary
    optimization,       \* the run_optimization() call: its arguments, the
                        \* study and what it returned or raised, or NoResult
    strategy,           \* the strategy object of a backtest: its class and
                        \* its attributes
    broker,             \* the broker of that backtest: the position, the
                        \* orders it was given and the bars it has played
    last_next           \* the latest next() call of the strategy: what it
                        \* saw and whether it submitted an order, or NoResult

metricVars == <<portfolio_values, pv_index, periods_per_year, metrics, returns_arg, returned>>

genVars == <<np_state, py_state, gens, base_data, out, calls, feed>>

tradeVars == <<strategy, broker, last_next>>

systemVars == <<factory, results_file, optimization, tradeVars>>

vars == <<portfolio_values, pv_index, periods_per_year, metrics, returns_arg, returned,
          np_state, py_state, gens, base_data, out, calls, feed, factory,
          results_file, optimization, strategy, broker, last_next>>

-----------------------------------------------------------------------------
(* Extended rational arithmetic *)

AbsInt(x) == IF x < 0 THEN -x ELSE x

RECURSIVE GCD(_, _)
GCD(a, b) == IF b = 0 THEN a ELSE GCD(b, a % b)

Q(n, d) ==
    LET s == IF d < 0 THEN -1 ELSE 1
        g == GCD(AbsInt(n), AbsInt(d))
    IN  [k |-> "fin", n |-> (s * n) \div g, d |-> (s * d) \div g]

Fin(n) == [k |-> "fin", n |-> n, d |-> 1]
NaN == [k |-> "nan", n |-> 0, d |-> 1]
PInf == [k |-> "inf", n |-> 0, d |-> 1]
NInf == [k |-> "ninf", n |-> 0, d |-> 1]
Zero == Fin(0)
One == Fin(1)

IsNaN(v) == v.k = "nan"
IsInf(v) == v.k \in {"inf", "ninf"}
IsFinite(v) == v.k = "fin"

\* sign of a value that is not NaN
Sgn(v) ==
    CASE v.k = "inf" -> 1
      [] v.k = "ninf" -> -1
      [] OTHER -> IF v.n > 0 THEN 1 ELSE IF v.n < 0 THEN -1 ELSE 0

SignedInf(s) == IF s < 0 THEN NInf ELSE PInf

Neg(v) ==
    CASE v.k = "fin" -> [k |-> "fin", n |-> -v.n, d |-> v.d]
      [] v.k = "inf" -> NInf
      [] v.k = "ninf" -> PInf
      [] OTHER -> NaN

Add(a, b) ==
    CASE IsNaN(a) \/ IsNaN(b) -> NaN
      [] IsFinite(a) /\ IsFinite(b) ->
            LET g == GCD(a.d, b.d)
            IN  Q(a.n * (b.d \div g) + b.n * (a.d \div g), (a.d \div g) * b.d)
      [] IsFinite(a) -> b
      [] IsFinite(b) -> a
      [] OTHER -> IF a.k = b.k THEN a ELSE NaN

Sub(a, b) == Add(a, Neg(b))

Mul(a, b) ==
    CASE IsNaN(a) \/ IsNaN(b) -> NaN
      [] IsFinite(a) /\ IsFinite(b) ->
            LET g1 == GCD(AbsInt(a.n), b.d)
                g2 == GCD(AbsInt(b.n), a.d)
            IN  Q((a.n \div g1) * (b.n \div g2), (a.d \div g2) * (b.d \div g1))
      [] OTHER -> IF Sgn(a) * Sgn(b) = 0 THEN NaN ELSE SignedInf(Sgn(a) * Sgn(b))

Div(a, b) ==
    CASE IsNaN(a) \/ IsNaN(b) -> NaN
      [] IsFinite(a) /\ IsFinite(b) ->
            IF b.n = 0
            THEN IF a.n = 0 THEN NaN ELSE SignedInf(Sgn(a))
            ELSE Mul(a, Q(b.d, b.n))
      [] IsFinite(a) -> Zero
      [] IsFinite(b) -> SignedInf(Sgn(a) * (IF Sgn(b) < 0 THEN -1 ELSE 1))
      [] OTHER -> NaN

\* comparisons: every comparison with NaN is false
Lt(a, b) ==
    /\ ~IsNaN(a) /\ ~IsNaN(b)
    /\ CASE IsFinite(a) /\ IsFinite(b) -> Sgn(Sub(a, b)) < 0
         [] a.k = "ninf" -> b.k # "ninf"
         [] b.k = "inf" -> a.k # "inf"
         [] OTHER -> FALSE

Eq(a, b) == ~IsNaN(a) /\ ~IsNaN(b) /\ a = b
Le(a, b) == Lt(a, b) \/ Eq(a, b)
Gt(a, b) == Lt(b, a)
Ge(a, b) == Le(b, a)

AbsVal(v) == IF IsNaN(v) THEN NaN ELSE IF Sgn(v) < 0 THEN Neg(v) ELSE v

\* x |-> sgn(x) * x^2: the order-preserving rational image of a quantity that
\* the code obtains through a square root (std, sqrt(periods_per_year))
SignedSquare(v) == Mul(v, AbsVal(v))

-----------------------------------------------------------------------------
(* pandas Series operations used by the metrics engine *)

RECURSIVE FfillAt(_, _)
FfillAt(s, i) ==
    IF IsNaN(s[i]) /\ i > 1 THEN FfillAt(s, i - 1) ELSE s[i]

ffill(s) == [i \in 1..Len(s) |-> FfillAt(s, i)]

RECURSIVE BfillAt(_, _)
BfillAt(s, i) ==
    IF IsNaN(s[i]) /\ i < Len(s) THEN BfillAt(s, i + 1) ELSE s[i]

bfill(s) == [i \in 1..Len(s) |-> BfillAt(s, i)]

fillna(s, x) == [i \in 1..Len(s) |-> IF IsNaN(s[i]) THEN x ELSE s[i]]

pct_change(s) ==
    [i \in 1..Len(s) |-> IF i = 1 THEN NaN ELSE Sub(Div(s[i], s[i - 1]), One)]

cummax(s) ==
    LET RECURSIVE MaxTo(_)
        MaxTo(i) == IF i = 1 THEN s[1]
                    ELSE IF Gt(s[i], MaxTo(i - 1)) THEN s[i] ELSE MaxTo(i - 1)
    IN  [i \in 1..Len(s) |-> IF IsNaN(s[i]) THEN NaN ELSE MaxTo(i)]

dropna(s) == SelectSeq(s, LAMBDA v : ~IsNaN(v))

RECURSIVE SumSeq(_)
SumSeq(s) == IF s = <<>> THEN Zero ELSE Add(Head(s), SumSeq(Tail(s)))

\* the significand of the floating-point format (53 bits in the program)
MantissaBits == 3

\* the nearest integer to the rational q >= 0, ties to the even one
RoundHalfEven(q) ==
    LET fl == q.n \div q.d
        twice == 2 * (q.n - fl * q.d)
    IN  IF twice < q.d THEN fl
        ELSE IF twice > q.d THEN fl + 1
        ELSE IF fl % 2 = 0 THEN fl ELSE fl + 1

\* x rounded to a multiple of the power of two under which its significand
\* has MantissaBits bits, searched from `unit`
RECURSIVE RoundAt(_, _)
RoundAt(x, unit) ==
    IF Ge(Div(AbsVal(x), unit), Fin(2 ^ MantissaBits))
    THEN RoundAt(x, Mul(unit, Fin(2)))
    ELSE IF Lt(Div(AbsVal(x), unit), Fin(2 ^ (MantissaBits - 1)))
    THEN RoundAt(x, Div(unit, Fin(2)))
    ELSE Mul(Fin(Sgn(x) * RoundHalfEven(Div(AbsVal(x), unit))), unit)

\* the floating-point number nearest to x
Float(x) == IF ~IsFinite(x) \/ x = Zero THEN x ELSE RoundAt(x, One)

\* the entries of a Series are floating-point numbers
FloatSeries(s) == [i \in 1..Len(s) |-> Float(s[i])]

\* values.sum(): the entries added one after the other, each sum rounded
RECURSIVE FloatSum(_, _)
FloatSum(v, i) == IF i = 0 THEN Zero ELSE Float(Add(FloatSum(v, i - 1), v[i]))

\* values.sum() / count
FloatMean(v) == Float(Div(FloatSum(v, Len(v)), Fin(Len(v))))

\* Series.mean(): NaN entries are skipped, NaN for an empty series
mean(s) ==
    IF dropna(s) = <<>> THEN NaN ELSE FloatMean(FloatSeries(dropna(s)))

\* the sum of the squared deviations from avg, over ddof = 1 less than count
VarAbout(v, avg) ==
    Div(SumSeq([i \in 1..Len(v) |-> Mul(Sub(avg, v[i]), Sub(avg, v[i]))]),
        Fin(Len(v) - 1))

\* Series.var() with ddof = 1; Series.std() is its square root
var(s) ==
    IF Len(dropna(s)) <= 1 THEN NaN
    ELSE VarAbout(FloatSeries(dropna(s)), FloatMean(FloatSeries(dropna(s))))

\* Series.min(): NaN entries are skipped, NaN for an all-NaN series
RECURSIVE MinSeq(_)
MinSeq(s) ==
    IF Len(s) = 1 THEN Head(s)
    ELSE LET m == MinSeq(Tail(s)) IN IF Lt(Head(s), m) THEN Head(s) ELSE m

min(s) == IF dropna(s) = <<>> THEN NaN ELSE MinSeq(dropna(s))


-----------------------------------------------------------------------------
(* src/src/utils/metrics.py                                                *)
(* Quantities the code obtains through a square root (the Sharpe and       *)
(* Sortino ratios, the volatility) are carried as their SignedSquare: it   *)
(* is zero, NaN, infinite or equal exactly when the quantity is.           *)

MetricKeys ==
    {"cagr", "sharpe_ratio", "max_drawdown", "sortino_ratio", "total_return",
     "volatility"}

\* the sentinel of calculate_metrics for "no downside, positive mean"
SortinoSentinel == 100

\* a CAGR value: (1 + n/d) ^ (1 / (yn/yd)) - 1, i.e. total growth n/d reached
\* over yn/yd years; the years are normalised to 1 where they do not matter
CagrVal(growth, years) ==
    IF growth.n = 0 \/ growth = Fin(-1)
    THEN [k |-> "fin", n |-> growth.n, d |-> growth.d, yn |-> 1, yd |-> 1]
    ELSE [k |-> "fin", n |-> growth.n, d |-> growth.d, yn |-> years.n, yd |-> years.d]

CagrZero == CagrVal(Zero, One)

CagrSpecial(kind) == [k |-> kind, n |-> 0, d |-> 1, yn |-> 1, yd |-> 1]

calculate_sharpe_ratio(returns, risk_free_rate, ppy) ==
    IF Len(returns) < 2 THEN Zero
    ELSE
        LET r == fillna(returns, Zero)
            excess_returns ==
                [i \in 1..Len(r) |-> Sub(r[i], Div(risk_free_rate, Fin(ppy)))]
            variance == var(excess_returns)
        IN  IF Eq(variance, Zero) THEN Zero
            ELSE Div(Mul(SignedSquare(mean(excess_returns)), Fin(ppy)), variance)

\* excess_returns[excess_returns < 0]
DownsideOf(excess_returns) == SelectSeq(excess_returns, LAMBDA r : Lt(r, Zero))

\* the value returned past the early returns: the std() of one observation is
\* NaN, which is not == 0, and the division carries it to the result
SortinoQuotient(returns, downside_returns, risk_free_rate, ppy) ==
    Div(Mul(SignedSquare(Sub(mean(returns), Div(risk_free_rate, Fin(ppy)))),
            Fin(ppy)),
        var(downside_returns))

SortinoOf(returns, excess_returns, downside_returns, risk_free_rate, ppy) ==
    IF downside_returns = <<>> \/ Eq(var(downside_returns), Zero)
    THEN IF Gt(mean(excess_returns), Zero) THEN PInf ELSE Zero
    ELSE SortinoQuotient(returns, downside_returns, risk_free_rate, ppy)

ExcessOf(returns, target_return, ppy) ==
    [i \in 1..Len(returns) |-> Sub(returns[i], Div(target_return, Fin(ppy)))]

calculate_sortino_ratio(returns, risk_free_rate, ppy, target_return) ==
    IF returns = <<>> THEN Zero
    ELSE SortinoOf(returns, ExcessOf(returns, target_return, ppy),
                   DownsideOf(ExcessOf(returns, target_return, ppy)),
                   risk_free_rate, ppy)

\* the decline measured from the first value instead of the running maximum
DrawdownFromStart(values) ==
    IF Len(values) < 2 THEN Zero
    ELSE AbsVal(min([i \in 1..Len(values) |->
                        Div(Sub(values[i], values[1]), values[1])]))

calculate_max_drawdown(values) ==
    IF Len(values) < 2 THEN Zero
    ELSE
        LET pv == bfill(ffill(values))
            cumulative_max == cummax(pv)
            drawdowns ==
                [i \in 1..Len(pv) |->
                    Div(Sub(pv[i], cumulative_max[i]), cumulative_max[i])]
            max_drawdown == min(drawdowns)
        IN  IF IsNaN(max_drawdown) THEN Zero ELSE AbsVal(max_drawdown)

\* (end_value / start_value) ** (1 / years) - 1 for years > 0, where 1/years
\* is never an integer (years is a multiple of 4/1461)
PowMinusOne(ratio, years) ==
    CASE IsNaN(ratio) -> CagrSpecial("nan")
      [] IsInf(ratio) -> CagrSpecial("inf")
      [] Sgn(ratio) < 0 -> CagrSpecial("nan")
      [] OTHER -> CagrVal(Sub(ratio, One), years)

\* the CAGR with the years counted in bars: number of points / periods_per_year
CagrByBarCount(values, index, ppy) ==
    IF Len(values) < 2 THEN CagrZero
    ELSE
        LET pv == bfill(ffill(values))
            cagr == PowMinusOne(Div(pv[Len(pv)], pv[1]), Q(Len(pv), ppy))
        IN  IF Le(pv[1], Zero) THEN CagrZero
            ELSE IF IsNaN(cagr) \/ IsInf(cagr) THEN CagrZero
            ELSE cagr

calculate_cagr(values, index, ppy) ==
    IF Len(values) < 2 THEN CagrZero
    ELSE
        LET pv == bfill(ffill(values))
            start_value == pv[1]
            end_value == pv[Len(pv)]
            \* days / 365.25
            years == Q(4 * (index[Len(index)] - index[1]), 1461)
            cagr == PowMinusOne(Div(end_value, start_value), years)
        IN  IF Le(start_value, Zero) \/ Le(years, Zero) THEN CagrZero
            ELSE IF IsNaN(cagr) \/ IsInf(cagr) THEN CagrZero
            ELSE cagr

ZeroMetrics ==
    [cagr |-> CagrZero, sharpe_ratio |-> Zero, max_drawdown |-> Zero,
     sortino_ratio |-> Zero, total_return |-> Zero, volatility |-> Zero]

\* portfolio_values.empty alone
IsDegenerateEmptyOnly(values) == Len(values) < 1

\* the guard of calculate_metrics: portfolio_values.empty or len < 2
IsDegenerate(values) == Len(values) < 2

calculate_metrics(values, index, risk_free_rate, ppy) ==
    IF IsDegenerate(values) THEN ZeroMetrics
    ELSE
        LET pv == bfill(ffill(values))
            returns == fillna(pct_change(pv), Zero)
            total_return == Sub(Div(pv[Len(pv)], pv[1]), One)
            vol == Mul(var(returns), Fin(ppy))
            downside_returns == SelectSeq(returns, LAMBDA r : Lt(r, Zero))
            sortino ==
                Div(Mul(SignedSquare(Sub(mean(returns),
                                         Div(risk_free_rate, Fin(ppy)))),
                        Fin(ppy)),
                    var(downside_returns))
        IN  [cagr |-> calculate_cagr(pv, index, ppy),
             sharpe_ratio |-> calculate_sharpe_ratio(returns, risk_free_rate, ppy),
             max_drawdown |-> calculate_max_drawdown(pv),
             sortino_ratio |->
                IF downside_returns # <<>> /\ Gt(var(downside_returns), Zero)
                THEN IF IsNaN(sortino) \/ IsInf(sortino) THEN Zero ELSE sortino
                ELSE IF Le(mean(returns), Zero) THEN Zero
                     ELSE SignedSquare(Fin(SortinoSentinel)),
             total_return |-> total_return,
             volatility |-> IF IsNaN(vol) \/ IsInf(vol) THEN Zero ELSE vol]

-----------------------------------------------------------------------------
(* The random sources                                                      *)
(* np.random is one process-wide generator: a deterministic stream fixed   *)
(* by the last np.random.seed() and advanced by every draw of any caller.  *)
(* The stream is a multiplicative congruential generator on 1..30; a draw  *)
(* advances the state and reads a sample off it. Samples come from small   *)
(* grids: uniform [0,1) from {0, 1/4, 1/2, 3/4}, the standard normal from  *)
(* three points {-50, 0, 50} of its support (so that the default           *)
(* volatility 0.01 moves a value by one half).                             *)

NextState(x) == (3 * x) % 31

\* the state k draws after state 1; the stream has period 30
StreamFromOne[k \in 0..29] == IF k = 0 THEN 1 ELSE NextState(StreamFromOne[k - 1])

\* the state k draws after state x: NextState applied k times
StateAfter(x, k) == (x * StreamFromOne[k % 30]) % 31

\* np.random.seed(seed)
SeedState(seed) == 1 + (seed % 30)

Uniform01(x) == Q(x % 4, 4)

StdNormal(x) == Fin(50 * ((x % 3) - 1))

\* np.random.uniform(low, high): a sample of [low, high)
uniform(low, high, x) == Add(low, Mul(Sub(high, low), Uniform01(x)))

\* np.random.normal(loc, scale)
normal(loc, scale, x) == Add(loc, Mul(scale, StdNormal(x)))

\* np.random.randint(low, high): an integer of [low, high)
randint(low, high, x) == Fin(low + (x % (high - low)))

\* np.exp sampled on the lattice of powers of 2: a factor below, at or above
\* 1 according to the sign of the argument (exp(-x) = 1/exp(x), exp(0) = 1)
exp(v) ==
    IF Sgn(v) > 0 THEN Fin(2) ELSE IF Sgn(v) < 0 THEN Q(1, 2) ELSE One

\* np.random.lognormal(mean, sigma)
lognormal(mu, sigma, x) == exp(normal(mu, sigma, x))

\* x ** e for 0 <= x < 1: exact for e = 2 and at x = 0; for the fractional
\* exponents (0.5, 0.8, 1.5) a value of [0, 1) that is 0 only at x = 0
Pow01(x, e) == IF e = Fin(2) THEN Mul(x, x) ELSE x

\* np.sqrt of a finite value >= 0, to a resolution of 1/100
RECURSIVE Isqrt(_, _, _)
Isqrt(m, lo, hi) ==
    IF lo >= hi THEN lo
    ELSE LET mid == (lo + hi + 1) \div 2
         IN  IF mid * mid <= m THEN Isqrt(m, mid, hi) ELSE Isqrt(m, lo, mid - 1)

sqrt(v) == Q(Isqrt((v.n * 10000) \div v.d, 0, 40000), 100)

\* ndarray.astype(int) of a finite value: truncation toward zero
astype_int(v) ==
    IF v.n >= 0 THEN Fin(v.n \div v.d) ELSE Fin(-((-v.n) \div v.d))

\* Python's max and min: the first argument is kept unless a later one is
\* strictly greater (smaller), so a NaN in first position is returned
max2(a, b) == IF Gt(b, a) THEN b ELSE a
min2(a, b) == IF Lt(b, a) THEN b ELSE a
max3(a, b, c) == max2(max2(a, b), c)
min3(a, b, c) == min2(min2(a, b), c)

-----------------------------------------------------------------------------
(* Time: minutes since Monday 2019-12-30 00:00, so that datetime(2020,1,1), *)
(* a Wednesday, is day 2.                                                   *)

MinutesPerHour == 60
MinutesPerDay == 1440

DefaultStartDate == 2 * MinutesPerDay

\* 0 = Monday ... 5 = Saturday, 6 = Sunday
Weekday(t) == (t \div MinutesPerDay) % 7

\* the time_delta chosen from config['frequency']
time_delta(freq) ==
    CASE freq = "D" -> MinutesPerDay
      [] freq = "H" -> MinutesPerHour
      [] freq = "M" -> 1
      [] OTHER -> MinutesPerDay

\* the pandas frequency string chosen from config['frequency']
freq_str(freq) ==
    CASE freq = "D" -> "B"
      [] freq = "H" -> "H"
      [] freq = "M" -> "T"
      [] OTHER -> "B"

Last(s) == s[Len(s)]

\* a calendar-day offset leaves a date where it is
CalendarDay(t) == t

\* pandas BusinessDay: roll a weekend date forward to Monday, same time
RollForward(t) ==
    IF Weekday(t) = 5 THEN t + 2 * MinutesPerDay
    ELSE IF Weekday(t) = 6 THEN t + MinutesPerDay
    ELSE t

\* the dates after `dates` up to `periods` of them, one business day apart
RECURSIVE BusinessDays(_, _)
BusinessDays(dates, periods) ==
    IF Len(dates) >= periods THEN dates
    ELSE BusinessDays(Append(dates, RollForward(Last(dates) + MinutesPerDay)), periods)

\* pd.date_range(start=start, periods=periods, freq=fs)
date_range(start, periods, fs) ==
    CASE fs = "H" -> [i \in 1..periods |-> start + (i - 1) * MinutesPerHour]
      [] fs = "T" -> [i \in 1..periods |-> start + (i - 1)]
      [] OTHER -> IF periods < 1 THEN <<>>
                  ELSE BusinessDays(<<RollForward(start)>>, periods)

\* pd.to_datetime([start_date + i * time_delta for i in range(length)])
delta_range(start, periods, delta) == [i \in 1..periods |-> start + (i - 1) * delta]

-----------------------------------------------------------------------------
(* Data frames: [index, index_kind, columns], columns a function from the  *)
(* column names to sequences as long as the index.                         *)

NoFrame == [none |-> TRUE]

DataFrame(index, columns) ==
    [index |-> index, index_kind |-> "DatetimeIndex", columns |-> columns]

\* base_data is not None and not base_data.empty
HasBase(base) == base # NoFrame /\ Len(base.index) > 0

DefaultStartPrice == 100

\* start_price of a single-asset generator
StartPrice(base, default) ==
    IF HasBase(base) THEN Last(base.columns["close"]) ELSE default

\* start_date of the generators that continue by their own time_delta
StartDate(base, delta) ==
    IF HasBase(base) /\ base.index_kind = "DatetimeIndex"
    THEN Last(base.index) + delta
    ELSE DefaultStartDate

Ok(df, draws, self) ==
    [status |-> "ok", df |-> df, draws |-> draws, self |-> self]

Raised(error, draws, self) ==
    [status |-> "raised", error |-> error, draws |-> draws, self |-> self]

-----------------------------------------------------------------------------
(* Pieces shared by the Monte Carlo, multi-asset and stress-test generators *)

\* prices = [start]; for _ in range(1, n): prices.append(prices[-1] *
\* exp(mu + sigma * normal())), the draws being number off+1 .. off+n-1 of
\* the stream from state st. The list has max(n, 1) elements.
RECURSIVE GbmExtend(_, _, _, _, _, _)
GbmExtend(prices, mu, sigma, n, st, off) ==
    IF Len(prices) >= n THEN prices
    ELSE GbmExtend(
             Append(prices,
                    Mul(Last(prices),
                        exp(Add(mu, Mul(sigma, normal(Zero, One,
                                                      StateAfter(st, off + Len(prices)))))))),
             mu, sigma, n, st, off)

GbmPath(start, mu, sigma, n, st, off) == GbmExtend(<<start>>, mu, sigma, n, st, off)

GbmDraws(n) == IF n < 1 THEN 0 ELSE n - 1

\* the floor the code puts under a low
MinLow == Q(1, 100)

\* low = max(low, 0.01); high = max(high, open, close); low = min(low, open, close)
ClampBar(open, close, high, low) ==
    [open |-> open,
     high |-> max3(high, open, close),
     low |-> min3(max2(low, MinLow), open, close)]

\* the high and the low of an up day (close >= open) and of a down day
OhlcRange(open, close, daily_volatility, x1, x2) ==
    IF Ge(close, open)
    THEN ClampBar(open, close,
                  Add(close, uniform(Zero, daily_volatility, x1)),
                  Sub(open, uniform(Zero, Div(daily_volatility, Fin(2)), x2)))
    ELSE ClampBar(open, close,
                  Add(open, uniform(Zero, Div(daily_volatility, Fin(2)), x1)),
                  Sub(close, uniform(Zero, daily_volatility, x2)))

\* price_range = abs(open - close); daily_volatility = max(price_range, close * sigma)
OhlcDay(open, close, sigma, x1, x2) ==
    OhlcRange(open, close, max2(AbsVal(Sub(open, close)), Mul(close, sigma)), x1, x2)

\* np.random.uniform(-gap_factor, gap_factor)
GapUniform(gap_factor, x) == uniform(Neg(gap_factor), gap_factor, x)

OhlcOpen(prices, sigma, x, i) ==
    IF i = 1 THEN prices[1]
    ELSE Mul(prices[i - 1], Add(One, GapUniform(Div(sigma, Fin(2)), x)))

\* bar i around the closes `prices` (a non-empty list): the opens take Len-1
\* gap draws, then each bar takes two draws
OhlcBar(prices, sigma, st, off, i) ==
    OhlcDay(OhlcOpen(prices, sigma, StateAfter(st, off + i - 1), i), prices[i], sigma,
            StateAfter(st, off + (Len(prices) - 1) + 2 * i - 1),
            StateAfter(st, off + (Len(prices) - 1) + 2 * i))

generate_ohlc(prices, sigma, st, off) ==
    [i \in 1..Len(prices) |-> OhlcBar(prices, sigma, st, off, i)]

OhlcDraws(n) == (n - 1) + 2 * n

\* a float carried to a resolution of 1/64
FloatResolution == 64

Rounded(v) ==
    IF IsFinite(v) THEN Q((v.n * FloatResolution) \div v.d, FloatResolution) ELSE v

\* volume[0] = base_volume[0]; volume[i] = 0.6 * volume[i-1] + 0.4 * base_volume[i],
\* base_volume being lognormal(mean=8, sigma=1) draws off+1 .. off+n
SmoothedNext(volume, base_volume) ==
    IF volume = <<>> THEN base_volume
    ELSE Rounded(Add(Mul(Q(6, 10), Last(volume)), Mul(Q(4, 10), base_volume)))

RECURSIVE SmoothedVolume(_, _, _, _)
SmoothedVolume(volume, n, st, off) ==
    IF Len(volume) >= n THEN volume
    ELSE SmoothedVolume(
             Append(volume,
                    SmoothedNext(volume, lognormal(Fin(8), One,
                                                   StateAfter(st, off + Len(volume) + 1)))),
             n, st, off)

PriceChange(prices, i) ==
    IF i = 1 THEN Zero
    ELSE AbsVal(Div(Sub(prices[i], prices[i - 1]), prices[i - 1]))

\* 1 + 5 * sqrt(price_changes) in the Monte Carlo and multi-asset generators
\* (`root`), 1 + 10 * price_changes in the stress-test generator
VolumeFactor(change, root) ==
    IF root THEN Add(One, Mul(Fin(5), sqrt(change)))
    ELSE Add(One, Mul(Fin(10), change))

\* (volume * volume_factor).astype(int)
ScaledVolume(volume, prices, root) ==
    [i \in 1..Len(prices) |->
        astype_int(Mul(volume[i], VolumeFactor(PriceChange(prices, i), root)))]

VolumeColumn(prices, st, off, root) ==
    ScaledVolume(SmoothedVolume(<<>>, Len(prices), st, off), prices, root)

BarColumn(bars, field) == [i \in 1..Len(bars) |-> bars[i][field]]

OhlcvColumns(bars, prices, volume) ==
    [open |-> BarColumn(bars, "open"), high |-> BarColumn(bars, "high"),
     low |-> BarColumn(bars, "low"), close |-> prices, volume |-> volume]

\* np.random.randint(low, high, size=n), draws off+1 .. off+n
RandintColumn(low, high, n, st, off) ==
    [i \in 1..n |-> randint(low, high, StateAfter(st, off + i))]

-----------------------------------------------------------------------------
(* src/src/data_generators/monte_carlo.py *)

\* BaseDataGenerator.__init__ and MonteCarloGenerator.__init__
\* config.get(key, default)
ConfigGet(config, key, default) ==
    IF key \in DOMAIN config THEN config[key] ELSE default

MonteCarloGenerator(config) ==
    [type |-> "monte_carlo", config |-> config, length |-> config.length,
     seed |-> config.seed, mu |-> ConfigGet(config, "mu", Q(1, 10000)),
     sigma |-> ConfigGet(config, "sigma", Q(1, 100))]

\* the frame built around the closes `prices`
MonteCarloFrame(self, base, st, prices) ==
    IF Len(prices) # self.length
    THEN Raised("ValueError", GbmDraws(self.length) + OhlcDraws(Len(prices)), self)
    ELSE Ok(DataFrame(date_range(StartDate(base, time_delta(self.config.frequency)),
                                 self.length, freq_str(self.config.frequency)),
                      OhlcvColumns(generate_ohlc(prices, self.sigma, st,
                                                 GbmDraws(self.length)),
                                   prices,
                                   VolumeColumn(prices, st,
                                                GbmDraws(self.length)
                                                    + OhlcDraws(self.length), TRUE))),
            GbmDraws(self.length) + OhlcDraws(self.length) + self.length, self)

MonteCarlo_generate(self, base, st) ==
    MonteCarloFrame(self, base, st,
                    GbmPath(StartPrice(base, Fin(DefaultStartPrice)), self.mu,
                            self.sigma, self.length, st, 0))

-----------------------------------------------------------------------------
(* src/src/data_generators/garch.py                                        *)
(* The conditional volatility is carried as its square h = volatility^2;   *)
(* a return r ~ N(0, volatility) is volatility * z, so r^2 = h * z^2 and   *)
(* the sign of r is the sign of z.                                         *)

GARCHGenerator(config) ==
    [type |-> "garch", config |-> config, length |-> config.length,
     seed |-> config.seed, omega |-> config.omega, alpha |-> config.alpha,
     beta |-> config.beta, initial_price |-> config.initial_price]

\* volatility[0] ** 2
InitialVariance(self) ==
    IF Gt(Sub(One, Add(self.alpha, self.beta)), Zero)
    THEN Div(self.omega, Sub(One, Add(self.alpha, self.beta)))
    ELSE self.omega

\* volatility[t] ** 2 = omega + alpha * returns[t] ** 2 + beta * volatility[t-1] ** 2
NextVariance(self, h, z) ==
    Add(self.omega, Add(Mul(self.alpha, Mul(h, Mul(z, z))), Mul(self.beta, h)))

\* the loop over t: `prices` are prices[0..t-1] and h is volatility[t-1] ** 2;
\* draw t is the standard normal z behind returns[t], whose SignedSquare is
\* h * SignedSquare(z)
RECURSIVE GarchLoop(_, _, _, _)
GarchLoop(self, prices, h, st) ==
    IF Len(prices) >= self.length THEN prices
    ELSE GarchLoop(self,
                   Append(prices,
                          Mul(Last(prices),
                              exp(Mul(h, SignedSquare(StdNormal(StateAfter(st, Len(prices)))))))),
                   NextVariance(self, h, StdNormal(StateAfter(st, Len(prices)))),
                   st)

GarchFrame(self, base, st, prices) ==
    Ok(DataFrame(delta_range(StartDate(base, time_delta(self.config.frequency)),
                             self.length, time_delta(self.config.frequency)),
                 [open |-> prices, high |-> prices, low |-> prices, close |-> prices,
                  volume |-> RandintColumn(100, 1000, self.length, st,
                                           GbmDraws(self.length))]),
       GbmDraws(self.length) + self.length, self)

GARCH_generate(self, base, st) ==
    IF self.length < 1
    THEN Raised("IndexError", 0, self)
    ELSE GarchFrame(self, base, st,
                    GarchLoop(self, <<StartPrice(base, self.initial_price)>>,
                              InitialVariance(self), st))

-----------------------------------------------------------------------------
(* src/src/data_generators/regime.py *)

RegimeSwitchingGenerator(config) ==
    [type |-> "regime", config |-> config, length |-> config.length,
     seed |-> config.seed, states |-> config.states,
     transition_matrix |-> config.transition_matrix,
     regime_params |-> config.regime_params,
     initial_price |-> config.initial_price]

\* len(self.regime_params) != self.states: the constructor raises ValueError
RegimeCtorRaises(config) == Len(config.regime_params) # config.states

\* np.random.choice(states, p=row): the number of entries of the cumulative
\* distribution that are <= the uniform draw
RECURSIVE CdfAt(_, _)
CdfAt(row, j) == IF j = 0 THEN Zero ELSE Add(CdfAt(row, j - 1), row[j])

\* a state picked from the draw alone, whatever the probabilities
ChoiceIgnoringP(row, x) == x % Len(row)

choice(row, x) ==
    Cardinality({j \in 1..Len(row) : Le(CdfAt(row, j), Uniform01(x))})

\* _get_next_state; states are 0-based, rows and regime_params 1-based
get_next_state(self, current_state, x) ==
    choice(self.transition_matrix[current_state + 1], x)

\* prices[t-1] * exp(mu + sigma * normal()) with the parameters of the regime
RegimeStep(price, params, x) ==
    Mul(price, exp(Add(params.mu, Mul(params.sigma, normal(Zero, One, x)))))

\* the loop over t: iteration t (bar t+1 of the sequences) draws its shock
\* (draw 2t-1) and then the next state (draw 2t)
RECURSIVE RegimeLoop(_, _, _, _)
RegimeLoop(self, prices, regimes, st) ==
    IF Len(prices) >= self.length THEN [prices |-> prices, regimes |-> regimes]
    ELSE RegimeLoop(self,
                    Append(prices,
                           RegimeStep(Last(prices), self.regime_params[Last(regimes) + 1],
                                      StateAfter(st, 2 * Len(prices) - 1))),
                    Append(regimes,
                           get_next_state(self, Last(regimes),
                                          StateAfter(st, 2 * Len(prices)))),
                    st)

\* DataFrame.max(axis=1) / min(axis=1) over three columns, NaN skipped
RowMax(a, b, c) ==
    IF dropna(<<a, b, c>>) = <<>> THEN NaN
    ELSE Neg(MinSeq(dropna(<<Neg(a), Neg(b), Neg(c)>>)))

RowMin(a, b, c) == min(<<a, b, c>>)

\* p * (1 + uniform(0, spread)) against open and close, both p
NoisyHigh(p, spread, x) == RowMax(Mul(p, Add(One, uniform(Zero, spread, x))), p, p)

\* p * (1 - uniform(0, spread)) against open and close, both p
NoisyLow(p, spread, x) == RowMin(Mul(p, Sub(One, uniform(Zero, spread, x))), p, p)

\* sigma / 2 of the regime of bar t
RegimeSpread(self, regimes, t) == Div(self.regime_params[regimes[t] + 1].sigma, Fin(2))

RegimeColumns(self, st, prices, regimes, off) ==
    [open |-> prices,
     high |-> [t \in 1..self.length |->
                  NoisyHigh(prices[t], RegimeSpread(self, regimes, t),
                            StateAfter(st, off + t))],
     low |-> [t \in 1..self.length |->
                 NoisyLow(prices[t], RegimeSpread(self, regimes, t),
                          StateAfter(st, off + self.length + t))],
     close |-> prices,
     volume |-> RandintColumn(100, 1000, self.length, st, off + 2 * self.length),
     regime |-> regimes]

RegimeFrame(self, base, st, loop) ==
    Ok(DataFrame(delta_range(StartDate(base, time_delta(self.config.frequency)),
                             self.length, time_delta(self.config.frequency)),
                 RegimeColumns(self, st, loop.prices, loop.regimes,
                               2 * GbmDraws(self.length))),
       2 * GbmDraws(self.length) + 3 * self.length, self)

Regime_generate(self, base, st) ==
    IF self.length < 1
    THEN Raised("IndexError", 0, self)
    ELSE RegimeFrame(self, base, st,
                     RegimeLoop(self, <<StartPrice(base, self.initial_price)>>, <<0>>, st))

-----------------------------------------------------------------------------
(* src/src/data_generators/extreme.py *)

ExtremeEventGenerator(config) ==
    [type |-> "extreme", config |-> config, length |-> config.length,
     seed |-> config.seed, crash_probability |-> config.crash_probability,
     crash_intensity |-> config.crash_intensity]

\* the base random walk: prices.append(prices[-1] * (1 + normal(0, 0.01)))
RECURSIVE WalkExtend(_, _, _)
WalkExtend(prices, n, st) ==
    IF Len(prices) >= n THEN prices
    ELSE WalkExtend(
             Append(prices,
                    Mul(Last(prices),
                        Add(One, normal(Zero, Q(1, 100), StateAfter(st, Len(prices)))))),
             n, st)

\* one pass of the event loop, on the uniform draws u1, u2, u3 that follow:
\* what the bar's price is multiplied by, which event fired, how many of the
\* draws were consumed, and how many of the two probability checks (the `if`
\* and the `elif`) were evaluated
EventOn(self, u1, u2, u3) ==
    IF Lt(u1, self.crash_probability)
    THEN [factor |-> Sub(One, Mul(self.crash_intensity, u2)),
          event |-> "crash", draws |-> 2, checks |-> 1]
    ELSE IF Lt(u2, self.config.surge_probability)
    THEN [factor |-> Add(One, Mul(self.config.surge_intensity, u3)),
          event |-> "surge", draws |-> 3, checks |-> 2]
    ELSE [factor |-> One, event |-> "none", draws |-> 2, checks |-> 2]

ExtremeEvent(self, st, used) ==
    EventOn(self, Uniform01(StateAfter(st, used + 1)), Uniform01(StateAfter(st, used + 2)),
            Uniform01(StateAfter(st, used + 3)))

\* for i in range(self.length): bar Len(events)+1 is next, `used` draws are
\* consumed so far
RECURSIVE EventLoop(_, _, _, _, _)
EventLoop(self, prices, events, used, st) ==
    IF Len(events) >= self.length
    THEN [prices |-> prices, events |-> events, draws |-> used]
    ELSE EventLoop(self,
                   [prices EXCEPT ![Len(events) + 1] =
                       Mul(@, ExtremeEvent(self, st, used).factor)],
                   Append(events, ExtremeEvent(self, st, used)),
                   used + ExtremeEvent(self, st, used).draws, st)

\* the H/L noise of the extreme-event generator
ExtremeSpread == Q(2, 100)

ExtremeColumns(n, st, prices, off) ==
    [open |-> prices,
     high |-> [i \in 1..n |-> NoisyHigh(prices[i], ExtremeSpread, StateAfter(st, off + i))],
     low |-> [i \in 1..n |->
                 NoisyLow(prices[i], ExtremeSpread, StateAfter(st, off + n + i))],
     close |-> prices,
     volume |-> RandintColumn(100, 10000, n, st, off + 2 * n)]

\* prices = [max(0.01, p) for p in prices]
FloorPrices(prices) == [i \in 1..Len(prices) |-> max2(MinLow, prices[i])]

ExtremeFrame(self, base, st, loop) ==
    Ok(DataFrame(delta_range(StartDate(base, time_delta(self.config.frequency)),
                             self.length, time_delta(self.config.frequency)),
                 ExtremeColumns(self.length, st, FloorPrices(loop.prices), loop.draws)),
       loop.draws + 3 * self.length, self)

Extreme_generate(self, base, st) ==
    IF self.length < 1
    THEN Raised("ValueError", 0, self)
    ELSE ExtremeFrame(self, base, st,
                      EventLoop(self,
                                WalkExtend(<<StartPrice(base, Fin(DefaultStartPrice))>>,
                                           self.length, st),
                                <<>>, GbmDraws(self.length), st))

-----------------------------------------------------------------------------
(* src/src/data_generators/multi_asset_generator.py                        *)
(* Matrices are sequences of rows.                                         *)

Identity(n) == [i \in 1..n |-> [j \in 1..n |-> IF i = j THEN One ELSE Zero]]

\* np.array(m).shape == (n, n)
HasShape(m, n) == Len(m) = n /\ \A i \in 1..Len(m) : Len(m[i]) = n

DefaultAssetNames(n) ==
    [i \in 1..n |-> CASE i = 1 -> "Asset_1" [] i = 2 -> "Asset_2" [] OTHER -> "Asset_3"]

MultiAssetGenerator(config) ==
    [type |-> "multi_asset", config |-> config, length |-> config.length,
     seed |-> config.seed, num_assets |-> config.num_assets,
     asset_names |-> IF Len(config.asset_names) # config.num_assets
                     THEN DefaultAssetNames(config.num_assets)
                     ELSE config.asset_names,
     correlation_matrix |-> IF HasShape(config.correlation_matrix, config.num_assets)
                            THEN config.correlation_matrix
                            ELSE Identity(config.num_assets),
     sigmas |-> IF Len(config.sigmas) # config.num_assets
                THEN [i \in 1..config.num_assets |-> Q(1, 100)]
                ELSE config.sigmas,
     mus |-> IF Len(config.mus) # config.num_assets
             THEN [i \in 1..config.num_assets |-> Q(1, 10000)]
             ELSE config.mus]

\* np.linalg.cholesky of a matrix of at most 2 rows: reads the lower triangle
\* only; "LinAlgError" when the matrix is not positive-definite
cholesky(m) ==
    LET a == m[1][1]
        l21 == Div(m[2][1], sqrt(a))
        rest == Sub(m[2][2], Mul(l21, l21))
        error == [raised |-> TRUE, L |-> <<>>]
    IN  IF ~Gt(a, Zero) THEN error
        ELSE IF Len(m) = 1 THEN [raised |-> FALSE, L |-> <<<<sqrt(a)>>>>]
        ELSE IF ~Gt(rest, Zero) THEN error
        ELSE [raised |-> FALSE, L |-> <<<<sqrt(a), Zero>>, <<l21, sqrt(rest)>>>>]

\* f'{name}_{field}'
ColumnName(name, field) == name \o "_" \o field

\* correlated_random[j, i] = sum_k uncorrelated_random[j, k] * L[i, k], the
\* uncorrelated draws being taken row by row
CorrelatedRandom(self, L, st, j, i) ==
    SumSeq([k \in 1..self.num_assets |->
               Mul(normal(Zero, One, StateAfter(st, (j - 1) * self.num_assets + k)),
                   L[i][k])])

\* prices[j] = prices[j-1] * exp(mus[i] + sigmas[i] * correlated_random[j, i])
RECURSIVE AssetPrice(_, _, _, _, _)
AssetPrice(self, L, prices, st, i) ==
    IF Len(prices) >= self.length THEN prices
    ELSE AssetPrice(self, L,
                    Append(prices,
                           Mul(Last(prices),
                               exp(Add(self.mus[i],
                                       Mul(self.sigmas[i],
                                           CorrelatedRandom(self, L, st,
                                                            Len(prices) + 1, i)))))),
                    st, i)

AssetStartPrice(self, base, i) ==
    IF HasBase(base) /\ ColumnName(self.asset_names[i], "close") \in DOMAIN base.columns
    THEN Last(base.columns[ColumnName(self.asset_names[i], "close")])
    ELSE Fin(DefaultStartPrice)

\* the draws taken before the OHLC of asset i: the length x num_assets normal
\* matrix, then the OHLC and volume of the assets before it
AssetOffset(self, i) ==
    self.length * self.num_assets + (i - 1) * (OhlcDraws(self.length) + self.length)

\* the columns `cols` under the names f'{name}_{field}'
NamedColumns(name, cols) ==
    [c \in {ColumnName(name, f) : f \in DOMAIN cols} |->
        cols[CHOOSE f \in DOMAIN cols : ColumnName(name, f) = c]]

AssetFrame(self, st, i, prices) ==
    NamedColumns(self.asset_names[i],
                 OhlcvColumns(generate_ohlc(prices, self.sigmas[i], st,
                                            AssetOffset(self, i)),
                              prices,
                              VolumeColumn(prices, st,
                                           AssetOffset(self, i) + OhlcDraws(self.length),
                                           TRUE)))

\* the five columns of asset i
AssetColumns(self, L, base, st, i) ==
    AssetFrame(self, st, i,
               AssetPrice(self, L, <<AssetStartPrice(self, base, i)>>, st, i))

RECURSIVE MergeColumns(_, _, _, _, _, _)
MergeColumns(self, L, base, st, i, acc) ==
    IF i > self.num_assets THEN acc
    ELSE MergeColumns(self, L, base, st, i + 1, AssetColumns(self, L, base, st, i) @@ acc)

MultiAssetFrame(self, base, st, chol) ==
    IF chol.raised THEN Raised("LinAlgError", 0, self)
    ELSE IF self.length < 1 THEN Raised("ValueError", 0, self)
    ELSE Ok(DataFrame(date_range(StartDate(base, time_delta(self.config.frequency)),
                                 self.length, freq_str(self.config.frequency)),
                      MergeColumns(self, chol.L, base, st, 1, [c \in {} |-> <<>>])),
            AssetOffset(self, self.num_assets + 1), self)

MultiAsset_generate(self, base, st) ==
    MultiAssetFrame(self, base, st, cholesky(self.correlation_matrix))

-----------------------------------------------------------------------------
(* src/src/data_generators/stress_test_generator.py *)

\* normal_days below this are re-split into thirds
MinNormalDays == 10

StressTestGenerator(config) ==
    [type |-> "stress_test", config |-> config, length |-> config.length,
     seed |-> config.seed, event_type |-> config.event_type,
     crash_intensity |-> config.crash_intensity,
     crash_duration |-> config.crash_duration,
     crash_recovery |-> config.crash_recovery,
     rally_intensity |-> config.rally_intensity,
     rally_duration |-> config.rally_duration,
     rally_correction |-> config.rally_correction,
     vol_multiplier |-> config.vol_multiplier,
     vol_duration |-> config.vol_duration,
     mu |-> config.mu, sigma |-> config.sigma]

\* exp(log(a) * (1 - p) + log(b) * p + noise) for 0 <= p < 1: the weighted
\* geometric mean of a and b, taken as the weighted arithmetic mean (equal to
\* it at p = 0, positive exactly when it is), times exp(noise); log of a
\* negative value is NaN, log(0) is -inf
LogInterpolate(a, b, p, noise) ==
    CASE IsNaN(a) \/ IsNaN(b) -> NaN
      [] Sgn(a) < 0 \/ Sgn(b) < 0 -> NaN
      [] Sgn(b) = 0 /\ p = Zero -> NaN
      [] Sgn(a) = 0 \/ Sgn(b) = 0 -> Zero
      [] OTHER -> Mul(Add(Mul(a, Sub(One, p)), Mul(b, p)), exp(noise))

\* one interpolated phase of `duration` bars, drawing off+1 .. off+duration
PhasePrices(from, to, duration, exponent, noise_scale, sigma, st, off) ==
    [i \in 1..duration |->
        LogInterpolate(from, to, Pow01(Q(i - 1, duration), exponent),
                       Mul(Mul(sigma, noise_scale),
                           normal(Zero, One, StateAfter(st, off + i))))]

\* the three phase lengths of a crash or rally
PhaseSplit(length, duration, after) ==
    IF length - duration - after < MinNormalDays
    THEN [normal_days |-> length \div 3, duration |-> length \div 3,
          after |-> length - (length \div 3) - (length \div 3)]
    ELSE [normal_days |-> length - duration - after, duration |-> duration,
          after |-> after]

\* recovery_target = crash_start_price * 0.9 is a fraction of the price the
\* event started from; correction_target = correction_start_price * 0.85 is
\* a fraction of the price it ended at
PhaseTarget(target, event_start, after_start) ==
    IF target.of = "event_start"
    THEN Mul(event_start, target.fraction)
    ELSE Mul(after_start, target.fraction)

\* the third phase, after the normal and the event prices
AfterPhase(self, st, split, exp2, target, prices_normal, prices_event) ==
    [raised |-> FALSE,
     prices |-> prices_normal \o prices_event
                \o PhasePrices(Last(prices_event),
                               PhaseTarget(target, Last(prices_normal),
                                           Last(prices_event)),
                               split.after, exp2, Q(6, 5), self.sigma, st,
                               GbmDraws(split.normal_days) + split.duration),
     draws |-> GbmDraws(split.normal_days) + split.duration + split.after]

\* the second phase, from the last normal price to it times (1 + intensity)
EventPhase(self, st, split, intensity, exp1, exp2, target, prices_normal) ==
    AfterPhase(self, st, split, exp2, target, prices_normal,
               PhasePrices(Last(prices_normal),
                           Mul(Last(prices_normal), Add(One, intensity)),
                           split.duration, exp1, Q(3, 2), self.sigma, st,
                           GbmDraws(split.normal_days)))

\* normal prices, then the event, then what follows it; an event of no bars
\* leaves prices_crash / prices_rally empty and [-1] raises IndexError
ThreePhase(self, start_price, st, split, intensity, exp1, exp2, target) ==
    IF split.duration < 1
    THEN [raised |-> TRUE, prices |-> <<>>, draws |-> GbmDraws(split.normal_days)]
    ELSE EventPhase(self, st, split, intensity, exp1, exp2, target,
                    GbmPath(start_price, self.mu, self.sigma, split.normal_days, st, 0))

generate_crash(self, start_price, st) ==
    LET split == PhaseSplit(self.length, self.crash_duration, self.crash_recovery)
    IN  [self |-> [self EXCEPT !.crash_duration = split.duration,
                               !.crash_recovery = split.after],
         res |-> ThreePhase(self, start_price, st, split, Neg(self.crash_intensity),
                            Fin(2), Q(1, 2),
                            [of |-> "event_start", fraction |-> Q(9, 10)])]

generate_rally(self, start_price, st) ==
    LET split == PhaseSplit(self.length, self.rally_duration, self.rally_correction)
    IN  [self |-> [self EXCEPT !.rally_duration = split.duration,
                               !.rally_correction = split.after],
         res |-> ThreePhase(self, start_price, st, split, self.rally_intensity,
                            Q(3, 2), Q(8, 10),
                            [of |-> "after_start", fraction |-> Q(85, 100)])]

\* the normal phase after the high-volatility one
VolAfter(self, st, days_before, days_after, before, vol) ==
    [raised |-> FALSE,
     prices |-> before \o vol
                \o GbmPath(Last(vol), self.mu, self.sigma, days_after, st,
                           GbmDraws(days_before) + GbmDraws(self.vol_duration)),
     draws |-> GbmDraws(days_before) + GbmDraws(self.vol_duration)
               + GbmDraws(days_after)]

\* the high-volatility phase: sigma * vol_multiplier
VolPhase(self, st, days_before, days_after, before) ==
    VolAfter(self, st, days_before, days_after, before,
             GbmPath(Last(before), self.mu, Mul(self.sigma, self.vol_multiplier),
                     self.vol_duration, st, GbmDraws(days_before)))

\* normal_days_before = (length - vol_duration) // 2, normal_days_after the
\* rest; each of the three lists starts with one price
generate_high_volatility(self, start_price, st) ==
    [self |-> self,
     res |-> VolPhase(self, st, (self.length - self.vol_duration) \div 2,
                      self.length - ((self.length - self.vol_duration) \div 2)
                          - self.vol_duration,
                      GbmPath(start_price, self.mu, self.sigma,
                              (self.length - self.vol_duration) \div 2, st, 0))]

\* random.choice(['crash', 'rally', 'volatility']) on Python's random module
random_choice(py) == <<"crash", "rally", "volatility">>[(py % 3) + 1]

StressEvent(self, py) ==
    IF self.event_type \in {"crash", "rally", "volatility"}
    THEN self.event_type
    ELSE random_choice(py)

\* generate() calls random.choice exactly when event_type is none of the three
UsesPyRandom(self) ==
    self.type = "stress_test" /\ self.event_type \notin {"crash", "rally", "volatility"}

StressPhase(self, start_price, st, event) ==
    CASE event = "crash" -> generate_crash(self, start_price, st)
      [] event = "rally" -> generate_rally(self, start_price, st)
      [] OTHER -> generate_high_volatility(self, start_price, st)

\* the frame around the prices of the phase; start_date is
\* base_data.index[-1] + timedelta(days=1) whatever the frequency, and the
\* index has len(prices) entries
StressFrame(self, base, st, phase) ==
    IF phase.res.raised
    THEN Raised("IndexError", phase.res.draws, phase.self)
    ELSE Ok(DataFrame(date_range(StartDate(base, MinutesPerDay), Len(phase.res.prices),
                                 freq_str(self.config.frequency)),
                      OhlcvColumns(generate_ohlc(phase.res.prices, self.sigma, st,
                                                 phase.res.draws),
                                   phase.res.prices,
                                   VolumeColumn(phase.res.prices, st,
                                                phase.res.draws
                                                    + OhlcDraws(Len(phase.res.prices)),
                                                FALSE))),
            phase.res.draws + OhlcDraws(Len(phase.res.prices)) + Len(phase.res.prices),
            phase.self)

Stress_generate(self, base, st, py) ==
    StressFrame(self, base, st,
                StressPhase(self, StartPrice(base, Fin(DefaultStartPrice)), st,
                            StressEvent(self, py)))

-----------------------------------------------------------------------------
(* The generators as a state machine: Construct builds an object (seeding  *)
(* the process-wide numpy stream), Generate calls its generate().          *)

Instances == {1, 2}

NoGen == [none |-> TRUE]

NoResult == [none |-> TRUE]

\* what generate() does on `self`, the numpy stream being in state st and
\* Python's random module in state py
GenerateResult(self, base, st, py) ==
    CASE self.type = "monte_carlo" -> MonteCarlo_generate(self, base, st)
      [] self.type = "garch" -> GARCH_generate(self, base, st)
      [] self.type = "regime" -> Regime_generate(self, base, st)
      [] self.type = "extreme" -> Extreme_generate(self, base, st)
      [] self.type = "multi_asset" -> MultiAsset_generate(self, base, st)
      [] OTHER -> Stress_generate(self, base, st, py)

\* the constructor selected by the type string
NewGenerator(config) ==
    CASE config.type = "monte_carlo" -> MonteCarloGenerator(config)
      [] config.type = "garch" -> GARCHGenerator(config)
      [] config.type = "regime" -> RegimeSwitchingGenerator(config)
      [] config.type = "extreme" -> ExtremeEventGenerator(config)
      [] config.type = "multi_asset" -> MultiAssetGenerator(config)
      [] OTHER -> StressTestGenerator(config)

\* what the caller of generate() gets: a frame, or an exception
Returned(r) ==
    IF r.status = "ok" THEN [status |-> "ok", df |-> r.df]
    ELSE [status |-> "raised", error |-> r.error]

Construct(i, config) ==
    /\ gens[i] = NoGen
    /\ gens' = [gens EXCEPT ![i] = NewGenerator(config)]
    /\ np_state' = SeedState(config.seed)
    /\ UNCHANGED <<py_state, base_data, out, calls, feed, metricVars, systemVars>>

\* Python's random module seeds itself from the operating system's entropy
\* when it is imported: its state is unknown until the first draw reads it
PyUnread == 0

PyStates == 1..3

PyChoices(self) ==
    IF UsesPyRandom(self) /\ py_state = PyUnread THEN PyStates ELSE {py_state}

\* the effects of a call of generate() that came out as r
Call(i, py, r) ==
    /\ out' = [out EXCEPT ![i] = Returned(r)]
    /\ gens' = [gens EXCEPT ![i] = r.self]
    /\ np_state' = StateAfter(np_state, r.draws)
    /\ py_state' = IF UsesPyRandom(gens[i]) THEN NextState(py) ELSE py_state

Generate(i, base, max_calls) ==
    /\ gens[i] # NoGen
    /\ calls[i] < max_calls
    /\ \E py \in PyChoices(gens[i]) :
          Call(i, py, GenerateResult(gens[i], base, np_state, py))
    /\ base_data' = [base_data EXCEPT ![i] = base]
    /\ calls' = [calls EXCEPT ![i] = @ + 1]
    /\ UNCHANGED <<feed, metricVars, systemVars>>

-----------------------------------------------------------------------------
(* src/src/data_generators/base.py: to_bt_feed, and its override in        *)
(* multi_asset_generator.py. A call is [raised, data]: whether it raised,  *)
(* and the frame object `data` as the call left it.                        *)

\* required_cols
RequiredCols == <<"open", "high", "low", "close", "volume">>

\* data[col] = values: the column is added to the frame passed in
WithColumn(data, col, values) ==
    [data EXCEPT !.columns = (col :> values) @@ data.columns]

\* a scalar assigned to a column is broadcast over the index
Broadcast(data, v) == [t \in 1..Len(data.index) |-> v]

\* data.set_index('datetime', inplace=True)
SetDatetimeIndex(data) ==
    [index |-> data.columns["datetime"], index_kind |-> "DatetimeIndex",
     columns |-> [c \in (DOMAIN data.columns) \ {"datetime"} |-> data.columns[c]]]

\* for col in required_cols: a missing open, high or low is copied from
\* close, a missing volume is 0, anything else raises ValueError
RECURSIVE FillRequired(_, _)
FillRequired(data, k) ==
    IF k > Len(RequiredCols) THEN [raised |-> FALSE, data |-> data]
    ELSE IF RequiredCols[k] \in DOMAIN data.columns THEN FillRequired(data, k + 1)
    ELSE IF RequiredCols[k] \in {"open", "high", "low"} /\ "close" \in DOMAIN data.columns
    THEN FillRequired(WithColumn(data, RequiredCols[k], data.columns["close"]), k + 1)
    ELSE IF RequiredCols[k] = "volume"
    THEN FillRequired(WithColumn(data, "volume", Broadcast(data, Zero)), k + 1)
    ELSE [raised |-> TRUE, data |-> data]

\* if 'openinterest' not in data.columns: data['openinterest'] = 0.0
WithOpenInterest(filled) ==
    IF filled.raised \/ "openinterest" \in DOMAIN filled.data.columns THEN filled
    ELSE [raised |-> FALSE,
          data |-> WithColumn(filled.data, "openinterest", Broadcast(filled.data, Zero))]

\* BaseDataGenerator.to_bt_feed
to_bt_feed(data) ==
    IF data.index_kind = "DatetimeIndex" THEN WithOpenInterest(FillRequired(data, 1))
    ELSE IF "datetime" \in DOMAIN data.columns
    THEN WithOpenInterest(FillRequired(SetDatetimeIndex(data), 1))
    ELSE [raised |-> TRUE, data |-> data]

\* MultiAssetGenerator.to_bt_feed: a new frame per asset out of the five
\* columns of the asset; a missing column raises KeyError
MultiAsset_to_bt_feed(self, data) ==
    [raised |-> \E a \in 1..self.num_assets, f \in {"open", "high", "low", "close", "volume"} :
                   ColumnName(self.asset_names[a], f) \notin DOMAIN data.columns,
     data |-> data]

\* the to_bt_feed of the object's class
FeedResult(self, data) ==
    IF self.type = "multi_asset" THEN MultiAsset_to_bt_feed(self, data)
    ELSE to_bt_feed(data)

\* the effects of to_bt_feed(data) that came out as r; the generated frame
\* is the very object passed when `generated`
FeedCall(i, data, generated, r) ==
    /\ feed' = [feed EXCEPT ![i] = [passed |-> data, data |-> r.data,
                                     raised |-> r.raised, generated |-> generated]]
    /\ out' = IF generated THEN [out EXCEPT ![i].df = r.data] ELSE out

\* run_backtest.py hands the generated frame to to_bt_feed
ToBtFeedGenerated(i) ==
    /\ gens[i] # NoGen
    /\ calls[i] > 0
    /\ out[i].status = "ok"
    /\ feed[i] = NoResult
    /\ FeedCall(i, out[i].df, TRUE, FeedResult(gens[i], out[i].df))
    /\ UNCHANGED <<np_state, py_state, gens, base_data, calls, metricVars, systemVars>>

\* to_bt_feed on a frame of the caller's
ToBtFeed(i, data) ==
    /\ gens[i] # NoGen
    /\ feed[i] = NoResult
    /\ FeedCall(i, data, FALSE, FeedResult(gens[i], data))
    /\ UNCHANGED <<np_state, py_state, gens, base_data, calls, metricVars, systemVars>>

-----------------------------------------------------------------------------
(* get_data_generator in src/run_backtest.py and in                        *)
(* src/src/optimizers/optuna_optimizer.py. A call is [requested, raised,   *)
(* error, generator]: the type string asked for, and the exception or the  *)
(* constructed object.                                                     *)

EntryPoints == {"backtest", "optimizer"}

\* the choices of --data-generator in main.py
CommandLineTypes ==
    {"monte_carlo", "garch", "regime", "extreme", "multi_asset", "stress_test"}

\* the modules of the package src.data_generators
GeneratorModules ==
    {"base", "extreme", "garch", "monte_carlo", "multi_asset_generator", "regime",
     "stress_test_generator"}

FactoryReturned(config, generator) ==
    [requested |-> config.type, raised |-> FALSE, error |-> "", generator |-> generator]

FactoryRaised(config, error) ==
    [requested |-> config.type, raised |-> TRUE, error |-> error, generator |-> NoGen]

\* from src.data_generators.<module> import <class>; <class>(data_config)
ImportAndConstruct(config, module, generator) ==
    IF module \in GeneratorModules THEN FactoryReturned(config, generator)
    ELSE FactoryRaised(config, "ModuleNotFoundError")

\* run_backtest.get_data_generator
backtest_get_data_generator(config) ==
    CASE config.type = "monte_carlo" ->
            ImportAndConstruct(config, "monte_carlo", MonteCarloGenerator(config))
      [] config.type = "garch" ->
            ImportAndConstruct(config, "garch", GARCHGenerator(config))
      [] config.type = "extreme" ->
            ImportAndConstruct(config, "extreme", ExtremeEventGenerator(config))
      [] config.type = "regime" ->
            ImportAndConstruct(config, "regime", RegimeSwitchingGenerator(config))
      [] OTHER ->
            ImportAndConstruct(config, "monte_carlo", MonteCarloGenerator(config))

\* optuna_optimizer.get_data_generator
optimizer_get_data_generator(config) ==
    CASE config.type = "monte_carlo" ->
            ImportAndConstruct(config, "monte_carlo", MonteCarloGenerator(config))
      [] config.type = "garch" ->
            ImportAndConstruct(config, "garch", GARCHGenerator(config))
      [] config.type = "extreme" ->
            ImportAndConstruct(config, "extreme", ExtremeEventGenerator(config))
      [] config.type = "regime" ->
            ImportAndConstruct(config, "regime", RegimeSwitchingGenerator(config))
      [] config.type = "multi_asset" ->
            ImportAndConstruct(config, "multi_asset", MultiAssetGenerator(config))
      [] config.type = "stress_test" ->
            ImportAndConstruct(config, "stress_test", StressTestGenerator(config))
      [] OTHER -> FactoryRaised(config, "ValueError")

get_data_generator(entry, config) ==
    IF entry = "backtest" THEN backtest_get_data_generator(config)
    ELSE optimizer_get_data_generator(config)

\* a call of get_data_generator; a constructor that runs seeds np.random
GetDataGenerator(entry, config) ==
    /\ factory[entry] = NoResult
    /\ factory' = [factory EXCEPT ![entry] = get_data_generator(entry, config)]
    /\ np_state' = IF factory'[entry].raised THEN np_state ELSE SeedState(config.seed)
    /\ UNCHANGED <<py_state, gens, base_data, out, calls, feed, metricVars,
                   results_file, optimization, tradeVars>>

-----------------------------------------------------------------------------
(* src/src/optimizers/optuna_optimizer.py and src/run_optimization.py.     *)
(* backtrader and optuna are outside the repository: what a backtest hands *)
(* to the objective (the PyFolio analyzer's portfolio_value dictionary,    *)
(* the values of the Sharpe, DrawDown and Returns analyzers, or an         *)
(* exception) is an input of each trial, and so are the suggested          *)
(* parameters. The Sharpe ratio is carried as its SignedSquare.            *)

NoFile == [none |-> TRUE]

\* a results file json.load fails on
CorruptFile == [corrupt |-> TRUE]

\* periods_map.get(freq, 252)
PeriodsPerYear(frequency) ==
    CASE frequency = "D" -> 252
      [] frequency = "H" -> 252 * 24
      [] frequency = "M" -> 252 * 24 * 60
      [] OTHER -> 252

\* float('-inf') if self.direction == 'maximize' else float('inf')
InvalidValue(direction) == IF direction = "maximize" THEN NInf ELSE PInf

\* the checks of the analyzers after the PyFolio path gave no value
AnalyzerValue(metric, direction, env) ==
    IF metric = "sharpe_ratio" /\ IsFinite(env.sharpe)
    THEN [value |-> env.sharpe, source |-> "sharpe_analyzer"]
    ELSE IF metric = "max_drawdown" /\ IsFinite(env.max_drawdown)
    THEN [value |-> Div(Neg(env.max_drawdown), Fin(100)), source |-> "drawdown_analyzer"]
    ELSE IF metric = "total_return" /\ IsFinite(env.rtot)
    THEN [value |-> env.rtot, source |-> "returns_analyzer"]
    ELSE [value |-> InvalidValue(direction), source |-> "invalid"]

\* the PyFolio path: metric_value is all_metrics.get(self.metric), returned
\* when it is finite
PyfolioValue(metric, direction, env, all_metrics) ==
    IF IsFinite(all_metrics[metric])
    THEN [value |-> all_metrics[metric], source |-> "calculate_metrics"]
    ELSE AnalyzerValue(metric, direction, env)

\* the index of the PyFolio series: one timestamp a day
DailyIndex(n) == [i \in 1..n |-> i - 1]

\* OptunaOptimizer.objective on what the backtest of the trial produced
objective(config, env) ==
    IF env.raises
    THEN [value |-> InvalidValue(config.direction), source |-> "invalid"]
    ELSE IF Len(env.portfolio_value) >= 2
    THEN PyfolioValue(config.metric, config.direction, env,
                      calculate_metrics(env.portfolio_value,
                                        DailyIndex(Len(env.portfolio_value)), Zero,
                                        PeriodsPerYear(config.data_generator.frequency)))
    ELSE AnalyzerValue(config.metric, config.direction, env)

\* a finished trial: its number, the suggested parameters, what the backtest
\* produced and what the objective returned on it
Trial(number, env, objective_value) ==
    [number |-> number, params |-> env.params, env |-> env,
     value |-> objective_value.value, source |-> objective_value.source]

\* study.optimize: one finished trial for each of the n_trials backtests
Trials(config, envs) ==
    [t \in 1..Len(envs) |-> Trial(t - 1, envs[t], objective(config, envs[t]))]

Better(direction, a, b) == IF direction = "maximize" THEN Gt(a, b) ELSE Lt(a, b)

\* study.best_trial: the first of the trials no other trial is better than
BestTrial(direction, trials) ==
    trials[CHOOSE t \in 1..Len(trials) :
              /\ \A u \in 1..Len(trials) : ~Better(direction, trials[u].value, trials[t].value)
              /\ \A u \in 1..(t - 1) : Better(direction, trials[t].value, trials[u].value)]

Record(trial) == [number |-> trial.number, params |-> trial.params, value |-> trial.value]

\* the trials written to trial_records: value neither NaN nor infinite
RECURSIVE TrialRecords(_, _)
TrialRecords(trials, records) ==
    IF trials = <<>> THEN records
    ELSE TrialRecords(Tail(trials),
                      IF IsFinite(Head(trials).value)
                      THEN Append(records, Record(Head(trials)))
                      ELSE records)

NotAvailable == [text |-> "N/A"]

\* the dictionary save_optimization_results dumps
SavedResults(config, trials, best) ==
    [metric |-> config.metric, trials |-> Len(trials),
     best_value |-> IF IsFinite(best.value) THEN best.value ELSE NotAvailable,
     best_params |-> best.params, direction |-> config.direction,
     trial_records |-> TrialRecords(trials, <<>>)]

\* optimize() returns the dummy study: a readable results file and no
\* storage_url
UsesSavedResults(file, force_optimize) ==
    file # NoFile /\ file # CorruptFile /\ ~force_optimize

\* what run_optimization returns from the results file
FromFile(file) ==
    [raised |-> FALSE, best_value |-> file.best_value,
     best_params |-> file.best_params, trials |-> file.trials]

OptimizationRaised(error) == [raised |-> TRUE, error |-> error]

\* the study has run: the file is written and read back
Saved(file, trials, draws) ==
    [file |-> file, study |-> trials, returned |-> FromFile(file), draws |-> draws]

\* run_optimization(config, strategy_name, force_optimize): the file it
\* leaves, the trials of the study and what it returns; made is
\* get_data_generator(self.config), generated the generate() of its object
Optimized(config, force_optimize, file, trials, made, generated) ==
    IF UsesSavedResults(file, force_optimize)
    THEN [file |-> file, study |-> <<>>, returned |-> FromFile(file), draws |-> 0]
    ELSE IF made.raised
    THEN [file |-> file, study |-> <<>>, returned |-> OptimizationRaised(made.error),
          draws |-> 0]
    ELSE IF generated.status = "raised"
    THEN [file |-> file, study |-> <<>>,
          returned |-> OptimizationRaised(generated.error), draws |-> generated.draws]
    ELSE Saved(SavedResults(config, trials, BestTrial(config.direction, trials)),
               trials, generated.draws)

Generated0(made, st, py) ==
    IF made.raised THEN NoResult ELSE GenerateResult(made.generator, NoFrame, st, py)

OptimizationCall(config, force_optimize, r, seeded) ==
    /\ results_file' = r.file
    /\ optimization' = [config |-> config, force_optimize |-> force_optimize,
                        file_before |-> results_file, study |-> r.study,
                        returned |-> r.returned]
    /\ np_state' = IF seeded THEN StateAfter(SeedState(config.data_generator.seed), r.draws)
                   ELSE np_state

RunOptimization(config, force_optimize, envs) ==
    /\ optimization = NoResult
    /\ Len(envs) = config.trials
    /\ OptimizationCall(
           config, force_optimize,
           Optimized(config, force_optimize, results_file, Trials(config, envs),
                     optimizer_get_data_generator(config.data_generator),
                     Generated0(optimizer_get_data_generator(config.data_generator),
                                SeedState(config.data_generator.seed), py_state)),
           /\ ~UsesSavedResults(results_file, force_optimize)
           /\ ~optimizer_get_data_generator(config.data_generator).raised)
    /\ UNCHANGED <<py_state, gens, base_data, out, calls, feed, factory, metricVars,
                   tradeVars>>

-----------------------------------------------------------------------------
(* src/src/strategies: the four strategy classes, run by backtrader. The   *)
(* engine is outside the repository: the broker of Cerebro as              *)
(* run_backtest.py sets it up (market orders, no volume filler) takes an   *)
(* order, notifies it as Submitted, then Accepted, then with one final     *)
(* status, and changes the position when it completes the order. What a    *)
(* bar shows to next() is an input: the indicators and the size that       *)
(* int(cash / close * order_percentage) comes to.                          *)

Strategies ==
    {"SampleStrategy", "DualMovingAverageStrategy", "MeanReversionStrategy",
     "MomentumStrategy"}

\* self.order = None
NoOrder == 0

\* the final statuses of an order
Terminal == {"Completed", "Canceled", "Margin", "Rejected"}

\* __init__: no order, no buy price
StrategyInit(cls) == [cls |-> cls, order |-> NoOrder, buy_price |-> "None"]

NewBroker == [position |-> 0, orders |-> <<>>, bars |-> 0]

\* the order object has not reached a final status
Alive(order) == order.status \notin Terminal

AliveOrders(b) == {k \in 1..Len(b.orders) : Alive(b.orders[k])}

\* a strategy that takes itself for flat whatever it holds
NeverInMarket(position) == FALSE

\* bool(self.position): the size is not 0
HasPosition(position) == position # 0

\* Strategy.buy / Strategy.sell: no order and None for size 0; the order
\* object is its place in the broker's list
Placed(b, isbuy, size) ==
    IF size = 0 THEN [broker |-> b, order |-> NoOrder]
    ELSE [broker |-> [b EXCEPT !.orders =
                         Append(@, [isbuy |-> isbuy, size |-> AbsInt(size),
                                    status |-> "Created"])],
          order |-> Len(b.orders) + 1]

\* entry_std = 2.0 and exit_std = 0.5 of MeanReversionStrategy, in halves of
\* a standard deviation, the unit of d.deviation
EntryStd == 4

ExitStd == 1

\* the buy condition of each class on the bar d
EntrySignal(cls, d) ==
    CASE cls = "MeanReversionStrategy" -> d.deviation < -EntryStd
      [] cls = "MomentumStrategy" -> d.crossover > 0 /\ d.signal > 0
      [] OTHER -> d.crossover > 0

\* the sell condition of each class on the bar d, stops aside
ExitSignal(cls, d) ==
    CASE cls = "MeanReversionStrategy" -> d.deviation > ExitStd
      [] cls = "MomentumStrategy" -> d.crossover < 0 /\ d.signal < 0
      [] OTHER -> d.crossover < 0

\* next() returned without an order
Stays(self, b) == [strategy |-> self, broker |-> b, submitted |-> FALSE, raised |-> FALSE]

\* next() raised TypeError on a buy_price of None
NextRaised(self, b) ==
    [strategy |-> self, broker |-> b, submitted |-> FALSE, raised |-> TRUE]

\* self.order = self.buy(...) / self.sell(...), and the buy price after it
Ordered(self, placed, buy_price) ==
    [strategy |-> [self EXCEPT !.order = placed.order, !.buy_price = buy_price],
     broker |-> placed.broker, submitted |-> placed.order # NoOrder,
     raised |-> FALSE]

\* SampleStrategy.next and MeanReversionStrategy.next: a buy of size > 0
\* when flat, a sell of the position on the exit signal or on the stop loss
Guarded_next(self, b, d) ==
    IF self.order # NoOrder THEN Stays(self, b)
    ELSE IF ~HasPosition(b.position)
    THEN IF EntrySignal(self.cls, d) /\ d.size > 0
         THEN Ordered(self, Placed(b, TRUE, d.size), "set")
         ELSE Stays(self, b)
    ELSE IF ExitSignal(self.cls, d) \/ d.stop
    THEN Ordered(self, Placed(b, FALSE, b.position), "set")
    ELSE Stays([self EXCEPT !.buy_price = "set"], b)

\* DualMovingAverageStrategy.next: the size is not tested, and buy_price is
\* compared when the cross is not down
DualMovingAverage_next(self, b, d) ==
    IF self.order # NoOrder THEN Stays(self, b)
    ELSE IF ~HasPosition(b.position)
    THEN IF EntrySignal(self.cls, d)
         THEN Ordered(self, Placed(b, TRUE, d.size), self.buy_price)
         ELSE Stays(self, b)
    ELSE IF ExitSignal(self.cls, d)
    THEN Ordered(self, Placed(b, FALSE, b.position), self.buy_price)
    ELSE IF self.buy_price = "None" THEN NextRaised(self, b)
    ELSE IF d.stop THEN Ordered(self, Placed(b, FALSE, b.position), self.buy_price)
    ELSE Stays(self, b)

\* MomentumStrategy.next: current_price > self.buy_price comes before the
\* test of buy_price for None
Momentum_next(self, b, d) ==
    IF self.order # NoOrder THEN Stays(self, b)
    ELSE IF ~HasPosition(b.position)
    THEN IF EntrySignal(self.cls, d) /\ d.size > 0
         THEN Ordered(self, Placed(b, TRUE, d.size), "set")
         ELSE Stays(self, b)
    ELSE IF self.buy_price = "None" THEN NextRaised(self, b)
    ELSE IF ExitSignal(self.cls, d) \/ d.stop
    THEN Ordered(self, Placed(b, FALSE, b.position), self.buy_price)
    ELSE Stays(self, b)

next(self, b, d) ==
    CASE self.cls = "DualMovingAverageStrategy" -> DualMovingAverage_next(self, b, d)
      [] self.cls = "MomentumStrategy" -> Momentum_next(self, b, d)
      [] OTHER -> Guarded_next(self, b, d)

\* a notify_order that forgets the order on every notification
NotifyForgetsOrder(self, order) == [self EXCEPT !.order = NoOrder]

\* notify_order: Submitted and Accepted return at once, every other status
\* ends in self.order = None; DualMovingAverageStrategy defines none and
\* inherits the empty one of bt.Strategy
notify_order(self, order) ==
    IF self.cls = "DualMovingAverageStrategy" THEN self
    ELSE IF order.status \in {"Submitted", "Accepted"} THEN self
    ELSE [self EXCEPT !.order = NoOrder,
                      !.buy_price = IF order.status = "Completed" /\ order.isbuy
                                    THEN "set" ELSE @]

\* the statuses the broker gives an order, in their order
NextStatuses(status) ==
    CASE status = "Created" -> {"Submitted"}
      [] status = "Submitted" -> {"Accepted"}
      [] status = "Accepted" -> Terminal
      [] OTHER -> {}

\* the position after the order got `status`
Executed(position, order, status) ==
    IF status # "Completed" THEN position
    ELSE IF order.isbuy THEN position + order.size
    ELSE position - order.size

\* what next() saw and did
NextCall(self, b, d, r) ==
    [alive_before |-> AliveOrders(b) # {}, position_before |-> b.position,
     entry |-> EntrySignal(self.cls, d), exit |-> ExitSignal(self.cls, d),
     size |-> d.size, submitted |-> r.submitted, raised |-> r.raised,
     order |-> IF r.submitted THEN Last(r.broker.orders) ELSE NoResult]

Played(self, b, d, r) ==
    /\ strategy' = r.strategy
    /\ broker' = [r.broker EXCEPT !.bars = @ + 1]
    /\ last_next' = NextCall(self, b, d, r)

\* a bar: the engine calls next()
NextBar(d, max_bars) ==
    /\ strategy # NoResult
    /\ broker.bars < max_bars
    /\ Played(strategy, broker, d, next(strategy, broker, d))
    /\ UNCHANGED <<genVars, metricVars, factory, results_file, optimization>>

\* the broker moves order k to its next status and notifies the strategy
NotifyOrder(k, status) ==
    /\ strategy # NoResult
    /\ k \in 1..Len(broker.orders)
    /\ status \in NextStatuses(broker.orders[k].status)
    /\ broker' = [broker EXCEPT !.orders[k].status = status,
                                !.position = Executed(@, broker.orders[k], status)]
    /\ strategy' = notify_order(strategy, broker'.orders[k])
    /\ UNCHANGED <<last_next, genVars, metricVars, factory, results_file, optimization>>

TradeIdle ==
    /\ strategy = NoResult
    /\ broker = NewBroker
    /\ last_next = NoResult

SystemIdle ==
    /\ factory = [e \in EntryPoints |-> NoResult]
    /\ results_file = NoFile
    /\ optimization = NoResult
    /\ TradeIdle

-----------------------------------------------------------------------------
(* Configurations and inputs *)

MaxLen == 3
LongLen == 12
MaxSeed == 1
MaxCalls == 2

Lengths == (1..MaxLen) \cup {LongLen}
Seeds == 0..MaxSeed
Frequencies == {"D", "H", "M", "W"}

Common == [length : Lengths, seed : Seeds, frequency : Frequencies]

With(c, extra) == extra @@ c

\* the sequences over S of length up to n
SeqsUpTo(S, n) == UNION {[1..m -> S] : m \in 0..n}

Half2 == <<<<Q(1, 2), Q(1, 2)>>, <<Q(1, 2), Q(1, 2)>>>>

\* each state always leaves for the other
Swap2 == <<<<Zero, One>>, <<One, Zero>>>>

DefaultRegimeParams ==
    <<[mu |-> Q(1, 10000), sigma |-> Q(1, 100)], [mu |-> Q(2, 10000), sigma |-> Q(3, 100)]>>

\* regime_params from the configuration: a second regime that falls on every
\* bar (drift -0.1 against a volatility of 0.001)
FallingRegimeParams ==
    <<[mu |-> Q(1, 10000), sigma |-> Q(1, 100)], [mu |-> Q(-1, 10), sigma |-> Q(1, 1000)]>>

Correlated2 == <<<<One, Q(3, 5)>>, <<Q(3, 5), One>>>>

\* two perfectly correlated assets: symmetric, singular
Singular2 == <<<<One, One>>, <<One, One>>>>

\* a matrix that is not symmetric
Lopsided2 == <<<<One, Zero>>, <<Q(3, 5), One>>>>

MonteCarloConfigs(C) ==
    {With(c, [type |-> "monte_carlo", mu |-> Q(1, 10000), sigma |-> sg]) :
        c \in C, sg \in {Q(1, 100), Fin(4)}}

\* a stationary parameter set (alpha + beta < 1) and an integrated one
GarchParams ==
    {[omega |-> Q(1, 8), alpha |-> Zero, beta |-> Q(1, 2)],
     [omega |-> Q(1, 8), alpha |-> Q(1, 2500), beta |-> One]}

GarchConfigs(C) ==
    {With(With(c, g), [type |-> "garch", initial_price |-> Fin(DefaultStartPrice)]) :
        c \in C, g \in GarchParams}

RegimeConfigs(C) ==
    {With(c, [type |-> "regime", states |-> 2, transition_matrix |-> tm,
              regime_params |-> rp,
              initial_price |-> Fin(DefaultStartPrice)]) :
        c \in C, tm \in {Identity(2), Half2, Swap2},
        rp \in {DefaultRegimeParams, FallingRegimeParams}}

ExtremeConfigs(C) ==
    {With(c, [type |-> "extreme", crash_probability |-> pr, crash_intensity |-> Q(1, 10),
              surge_probability |-> pr, surge_intensity |-> Q(1, 10)]) :
        c \in C, pr \in {Q(1, 100), Q(1, 2)}}

MultiAssetConfigs(C) ==
    {With(c, [type |-> "multi_asset", num_assets |-> 2,
              asset_names |-> DefaultAssetNames(2), correlation_matrix |-> cm,
              sigmas |-> <<Q(1, 100), Q(1, 100)>>,
              mus |-> <<Q(1, 10000), Q(1, 10000)>>]) :
        c \in C, cm \in {Identity(2), Identity(3), Correlated2, Singular2, Lopsided2}}

\* the phase durations: the defaults of the code (with a shorter volatility
\* spike), or one bar each
DurationProfiles ==
    {[crash_duration |-> 20, crash_recovery |-> 60, rally_duration |-> 20,
      rally_correction |-> 30, vol_duration |-> 5],
     [crash_duration |-> 1, crash_recovery |-> 1, rally_duration |-> 1,
      rally_correction |-> 1, vol_duration |-> 1]}

StressConfigs(C) ==
    {With(With(c, d),
          [type |-> "stress_test", event_type |-> e, crash_intensity |-> Q(3, 10),
           rally_intensity |-> Q(3, 10), vol_multiplier |-> Fin(3),
           mu |-> Q(1, 10000), sigma |-> Q(1, 100)]) :
        c \in C, d \in DurationProfiles,
        e \in {"crash", "rally", "volatility", "random"}}

ConfigsOver(C) ==
    MonteCarloConfigs(C) \cup GarchConfigs(C) \cup RegimeConfigs(C)
        \cup ExtremeConfigs(C) \cup MultiAssetConfigs(C) \cup StressConfigs(C)

Configs == ConfigsOver(Common)

\* base_data: a one-row frame ending on Thursday 2020-01-02 or on Friday
\* 2020-01-03 with every price at 50, the same without a timestamp index, an
\* empty frame, or None
BaseColumns(type) ==
    IF type = "multi_asset"
    THEN [c \in {ColumnName(a, f) : a \in {"Asset_1", "Asset_2"},
                                     f \in {"open", "high", "low", "close", "volume"}} |->
             <<Fin(50)>>]
    ELSE [open |-> <<Fin(50)>>, high |-> <<Fin(50)>>, low |-> <<Fin(50)>>,
          close |-> <<Fin(50)>>, volume |-> <<Fin(50)>>]

EmptyFrame == DataFrame(<<>>, [close |-> <<>>])

BaseFrames(type) ==
    {NoFrame, EmptyFrame,
     DataFrame(<<3 * MinutesPerDay>>, BaseColumns(type)),
     DataFrame(<<4 * MinutesPerDay>>, BaseColumns(type)),
     [index |-> <<0>>, index_kind |-> "RangeIndex", columns |-> BaseColumns(type)]}

BaseChoices(g) == IF g = NoGen THEN {NoFrame} ELSE BaseFrames(g.type)

\* the functions of metrics.py that are also called on their own
RatioKeys == {"sharpe_ratio", "sortino_ratio", "max_drawdown", "cagr"}

NoRatios == [f \in RatioKeys |-> NoResult]

MetricsIdle ==
    /\ portfolio_values = <<>>
    /\ pv_index = <<>>
    /\ periods_per_year = 252
    /\ metrics = NoResult
    /\ returns_arg = <<>>
    /\ returned = NoRatios

GenInit ==
    /\ np_state = 1
    /\ py_state = PyUnread
    /\ gens = [i \in Instances |-> NoGen]
    /\ base_data = [i \in Instances |-> NoFrame]
    /\ out = [i \in Instances |-> NoResult]
    /\ calls = [i \in Instances |-> 0]
    /\ feed = [i \in Instances |-> NoResult]
    /\ SystemIdle

Init == GenInit /\ MetricsIdle

\* one generator object, any configuration, one generate() call
Next ==
    \/ \E config \in Configs : Construct(1, config)
    \/ \E base \in BaseChoices(gens[1]) : Generate(1, base, 1)

Spec == Init /\ [][Next]_vars

-----------------------------------------------------------------------------
(* Generators configured with a length below 1 *)

ShortLengths == {0}

ShortConfigs ==
    ConfigsOver([length : ShortLengths, seed : Seeds, frequency : Frequencies])

ShortNext ==
    \/ \E config \in ShortConfigs : Construct(1, config)
    \/ \E base \in BaseChoices(gens[1]) : Generate(1, base, 1)

SpecShort == Init /\ [][ShortNext]_vars

-----------------------------------------------------------------------------
(* The two entry points selecting a generator *)

\* a type string that names no generator, with Monte Carlo parameters
UnknownConfigs(C) ==
    {With(c, [type |-> "unknown", mu |-> Q(1, 10000), sigma |-> Q(1, 100)]) : c \in C}

FactoryConfigs ==
    ConfigsOver([length : {2}, seed : Seeds, frequency : {"D"}])
        \cup UnknownConfigs([length : {2}, seed : Seeds, frequency : {"D"}])

FactoryNext ==
    \E entry \in EntryPoints, config \in FactoryConfigs : GetDataGenerator(entry, config)

SpecFactory == Init /\ [][FactoryNext]_vars

-----------------------------------------------------------------------------
(* Two generators in one process *)

\* two generator objects in one process, each constructed once and called up
\* to MaxCalls times, the constructions and calls interleaved in any order
SharedCommon == [length : {2}, seed : Seeds, frequency : {"D"}]

SharedConfigs ==
    {c \in ConfigsOver(SharedCommon) :
        CASE c.type = "monte_carlo" -> c.sigma = Q(1, 100)
          [] c.type = "garch" -> c.alpha = Zero
          [] c.type = "regime" -> c.transition_matrix = Half2
          [] c.type = "extreme" -> c.crash_probability = Q(1, 2)
          [] c.type = "multi_asset" -> c.correlation_matrix = Correlated2
          [] OTHER -> c.event_type \in {"volatility", "random"} /\ c.vol_duration = 1}

SharedBases(g) ==
    IF g = NoGen THEN {NoFrame}
    ELSE {NoFrame, DataFrame(<<3 * MinutesPerDay>>, BaseColumns(g.type))}

SharedNext ==
    \/ \E i \in Instances, config \in SharedConfigs : Construct(i, config)
    \/ \E i \in Instances : \E base \in SharedBases(gens[i]) : Generate(i, base, MaxCalls)

SpecShared == Init /\ [][SharedNext]_vars

-----------------------------------------------------------------------------
(* An optimization run, with or without a results file of an earlier run *)

MaxTrials == 2

OptMetrics == {"sharpe_ratio", "sortino_ratio", "max_drawdown", "total_return"}

\* one configuration of each generator type
OptGenerators == {c \in SharedConfigs : c.seed = 0}

OptimizeConfigs ==
    [data_generator : OptGenerators, metric : OptMetrics,
     direction : {"maximize", "minimize"}, trials : 1..MaxTrials]

\* what the backtest of a trial hands to the objective
Backtest(params, raises, portfolio_value, sharpe) ==
    [params |-> params, raises |-> raises, portfolio_value |-> portfolio_value,
     sharpe |-> sharpe, max_drawdown |-> Fin(50), rtot |-> Q(-1, 2)]

TrialEnvs ==
    {Backtest(1, TRUE, <<>>, NaN),
     Backtest(2, FALSE, <<>>, Fin(4)),
     Backtest(3, FALSE, <<Fin(100), Fin(50), Fin(100)>>, NaN),
     Backtest(4, FALSE, <<Fin(50), Fin(100)>>, Fin(4)),
     Backtest(5, FALSE, <<Zero, Fin(100)>>, Fin(4))}

\* the file of an earlier run that found sharpe_ratio 1 in its one trial
EarlierResults ==
    [metric |-> "sharpe_ratio", trials |-> 1, best_value |-> One, best_params |-> 2,
     direction |-> "maximize",
     trial_records |-> <<[number |-> 0, params |-> 2, value |-> One]>>]

OptimizeInit ==
    /\ MetricsIdle
    /\ np_state = 1
    /\ py_state = PyUnread
    /\ gens = [i \in Instances |-> NoGen]
    /\ base_data = [i \in Instances |-> NoFrame]
    /\ out = [i \in Instances |-> NoResult]
    /\ calls = [i \in Instances |-> 0]
    /\ feed = [i \in Instances |-> NoResult]
    /\ factory = [e \in EntryPoints |-> NoResult]
    /\ results_file \in {NoFile, CorruptFile, EarlierResults}
    /\ optimization = NoResult
    /\ TradeIdle

OptimizeNext ==
    \E config \in OptimizeConfigs, force_optimize \in BOOLEAN,
       envs \in SeqsUpTo(TrialEnvs, MaxTrials) :
        RunOptimization(config, force_optimize, envs)

SpecOptimize == OptimizeInit /\ [][OptimizeNext]_vars

-----------------------------------------------------------------------------
(* A backtest: one strategy of any of the four classes, the bars the       *)
(* engine plays to it and the notifications of its orders, interleaved in  *)
(* every order.                                                            *)

MaxBars == 3

MaxSize == 2

\* what a bar shows: the crossover indicator, the deviation from the mean in
\* halves of a standard deviation, the sign of the smoothed momentum, whether a stop is
\* hit, and int(cash / close * order_percentage)
BarInputs(cls) ==
    CASE cls = "MeanReversionStrategy" ->
             [crossover : {0}, deviation : {-6, 0, 4}, signal : {0},
              stop : BOOLEAN, size : 0..MaxSize]
      [] cls = "MomentumStrategy" ->
             [crossover : {-1, 0, 1}, deviation : {0}, signal : {-1, 1},
              stop : BOOLEAN, size : 0..MaxSize]
      [] OTHER ->
             [crossover : {-1, 0, 1}, deviation : {0}, signal : {0},
              stop : BOOLEAN, size : 0..MaxSize]

TradeInit ==
    /\ MetricsIdle
    /\ np_state = 1
    /\ py_state = PyUnread
    /\ gens = [i \in Instances |-> NoGen]
    /\ base_data = [i \in Instances |-> NoFrame]
    /\ out = [i \in Instances |-> NoResult]
    /\ calls = [i \in Instances |-> 0]
    /\ feed = [i \in Instances |-> NoResult]
    /\ factory = [e \in EntryPoints |-> NoResult]
    /\ results_file = NoFile
    /\ optimization = NoResult
    /\ strategy \in {StrategyInit(cls) : cls \in Strategies}
    /\ broker = NewBroker
    /\ last_next = NoResult

TradeNext ==
    \/ \E d \in BarInputs(strategy.cls) : NextBar(d, MaxBars)
    \/ \E k \in 1..MaxBars, status \in {"Submitted", "Accepted"} \cup Terminal :
           NotifyOrder(k, status)

SpecTrade == TradeInit /\ [][TradeNext]_vars

-----------------------------------------------------------------------------
(* A generator, its series and the feed made of it *)

\* a frame of the caller's with a 'datetime' column and no timestamp index
DatetimeColumnFrame ==
    [index |-> <<0>>, index_kind |-> "RangeIndex",
     columns |-> [datetime |-> <<3 * MinutesPerDay>>, close |-> <<Fin(50)>>,
                  volume |-> <<Fin(50)>>]]

\* the frames handed to to_bt_feed besides the generated one: complete with
\* and without a timestamp index, close only, without close, with a
\* 'datetime' column, and one that has its openinterest already
FeedFrames(g) ==
    IF g = NoGen THEN {}
    ELSE {DataFrame(<<3 * MinutesPerDay>>, BaseColumns(g.type)),
          [index |-> <<0>>, index_kind |-> "RangeIndex", columns |-> BaseColumns(g.type)],
          DataFrame(<<3 * MinutesPerDay>>, [close |-> <<Fin(50)>>]),
          DataFrame(<<3 * MinutesPerDay>>, [open |-> <<Fin(50)>>]),
          DatetimeColumnFrame,
          DataFrame(<<3 * MinutesPerDay>>,
                    [openinterest |-> <<Zero>>] @@ BaseColumns(g.type))}

FeedNext ==
    \/ \E config \in SharedConfigs : Construct(1, config)
    \/ \E base \in SharedBases(gens[1]) : Generate(1, base, 1)
    \/ ToBtFeedGenerated(1)
    \/ \E data \in FeedFrames(gens[1]) : ToBtFeed(1, data)

SpecFeed == Init /\ [][FeedNext]_vars

-----------------------------------------------------------------------------
(* Properties of the generated series *)

\* instance i has returned a frame from generate()
Generated(i) == calls[i] > 0 /\ out[i].status = "ok"

\* the assets of a frame: 0 for the single asset of a plain OHLCV frame
Assets(g) == IF g.type = "multi_asset" THEN 1..g.num_assets ELSE {0}

Field(g, a, f) == IF a = 0 THEN f ELSE ColumnName(g.asset_names[a], f)

Cell(i, a, f, t) == out[i].df.columns[Field(gens[i], a, f)][t]

Bars(i) == 1..Len(out[i].df.index)

\* C1: generate() returns a series of exactly `length` bars, for each of the
\* six generators (the stress-test generator in every event_type) and every
\* configuration with length >= 1, whatever the phase durations
C1_ExactlyLengthBars ==
    \A i \in Instances :
        calls[i] > 0 =>
            /\ out[i].status = "ok"
            /\ Len(out[i].df.index) = gens[i].length

\* C2: every generated bar has low <= min(open, close) <= max(open, close)
\* <= high, low > 0 and volume >= 0, for every configured volatility and
\* event intensity
C2_BarsWellFormed ==
    \A i \in Instances :
        Generated(i) =>
            \A a \in Assets(gens[i]), t \in Bars(i) :
                LET open == Cell(i, a, "open", t)
                    close == Cell(i, a, "close", t)
                IN  /\ Le(Cell(i, a, "low", t), min2(open, close))
                    /\ Le(min2(open, close), max2(open, close))
                    /\ Le(max2(open, close), Cell(i, a, "high", t))
                    /\ Gt(Cell(i, a, "low", t), Zero)
                    /\ Ge(Cell(i, a, "volume", t), Zero)

\* C6: two instances built with the same configuration and seed and given the
\* same base series return identical series from their first generate() calls
C6_SameSeedSameSeries ==
    (/\ calls[1] = 1
     /\ calls[2] = 1
     /\ gens[1].config = gens[2].config
     /\ base_data[1] = base_data[2]) => out[1] = out[2]

\* what a freshly constructed generator returns when nothing else draws from
\* the process's random streams between its construction and its call
AloneOutputs(config, base) ==
    {Returned(GenerateResult(NewGenerator(config), base, SeedState(config.seed), py)) :
        py \in PyStates}

\* C7: each instance owns its random stream: what its first generate() returns
\* does not depend on the other instances constructed or called meanwhile
C7_OwnRandomStream ==
    \A i \in Instances :
        calls[i] = 1 => out[i] \in AloneOutputs(gens[i].config, base_data[i])

\* the frequency step the configuration names: D, H, M, anything else daily
FrequencyStep(frequency) ==
    CASE frequency = "H" -> MinutesPerHour
      [] frequency = "M" -> 1
      [] OTHER -> MinutesPerDay

\* C8 as stated: consecutive timestamps are exactly one frequency step apart
\* (hence strictly increasing), for every generator
C8_OneStepApart ==
    \A i \in Instances :
        Generated(i) =>
            \A t \in Bars(i) :
                t > 1 => out[i].df.index[t] - out[i].df.index[t - 1]
                            = FrequencyStep(gens[i].config.frequency)

\* the generators that index daily bars by pandas business days
OnBusinessDays(g) ==
    /\ g.type \in {"monte_carlo", "multi_asset", "stress_test"}
    /\ g.config.frequency \notin {"H", "M"}

\* C8: timestamps are strictly increasing; consecutive bars are one frequency
\* step apart, except that the daily bars of the Monte-Carlo, multi-asset and
\* stress-test generators fall on consecutive business days: Monday to
\* Friday, the bar after a Friday three days later
C8_StepOrBusinessDay ==
    \A i \in Instances :
        Generated(i) =>
            \A t \in Bars(i) :
                LET index == out[i].df.index
                IN  /\ OnBusinessDays(gens[i]) => Weekday(index[t]) < 5
                    /\ t > 1 =>
                          /\ index[t] > index[t - 1]
                          /\ index[t] - index[t - 1] =
                                IF OnBusinessDays(gens[i]) /\ Weekday(index[t - 1]) = 4
                                THEN 3 * MinutesPerDay
                                ELSE FrequencyStep(gens[i].config.frequency)

\* a daily Monte-Carlo series that runs over a weekend
C8_Witness ==
    \E i \in Instances :
        /\ Generated(i)
        /\ gens[i].type = "monte_carlo"
        /\ \E t \in Bars(i) :
              /\ t > 1
              /\ out[i].df.index[t] - out[i].df.index[t - 1] = 3 * MinutesPerDay

\* C9: with a base series that has a timestamp index, the first generated
\* timestamp is the last base timestamp plus exactly one frequency step
C9_StartsOneStepAfterBase ==
    \A i \in Instances :
        (/\ Generated(i)
         /\ HasBase(base_data[i])
         /\ base_data[i].index_kind = "DatetimeIndex") =>
            out[i].df.index[1] =
                Last(base_data[i].index) + FrequencyStep(gens[i].config.frequency)

\* C10: the first generated close equals the last close of the base series
\* (per asset for the multi-asset generator), or 100.0 without a base series
C10_FirstCloseIsAnchor ==
    \A i \in Instances :
        Generated(i) =>
            \A a \in Assets(gens[i]) :
                Cell(i, a, "close", 1) =
                    IF HasBase(base_data[i])
                    THEN Last(base_data[i].columns[Field(gens[i], a, "close")])
                    ELSE Fin(DefaultStartPrice)

\* the event loop of the first generate() of instance i, which starts on the
\* stream its constructor seeded
FirstEventLoop(i) ==
    EventLoop(gens[i],
              WalkExtend(<<StartPrice(base_data[i], Fin(DefaultStartPrice))>>,
                         gens[i].length, SeedState(gens[i].seed)),
              <<>>, GbmDraws(gens[i].length), SeedState(gens[i].seed))

\* instance i is an extreme-event generator whose first generate() returned
ExtremeGenerated(i) ==
    /\ Generated(i)
    /\ gens[i].type = "extreme"
    /\ calls[i] = 1

\* C17: in the extreme-event generator the crash check and the surge check
\* are both evaluated on every bar, whether or not the crash fired on it
C17_BothChecksEveryBar ==
    \A i \in Instances :
        ExtremeGenerated(i) =>
            \A t \in 1..gens[i].length : FirstEventLoop(i).events[t].checks = 2

\* instance i is a regime-switching generator whose generate() returned
RegimeGenerated(i) == Generated(i) /\ gens[i].type = "regime"

\* C18: the regime labels are a path of the configured Markov chain started
\* in state 0: bar 0 is labelled 0 and every consecutive pair of labels (a, b)
\* has transition_matrix[a][b] > 0; with the identity matrix every bar is
\* labelled 0
C18_RegimesFollowChain ==
    \A i \in Instances :
        RegimeGenerated(i) =>
            LET regime == out[i].df.columns["regime"]
                matrix == gens[i].transition_matrix
            IN  /\ Len(regime) = gens[i].length
                /\ regime[1] = 0
                /\ \A t \in 2..Len(regime) :
                       /\ regime[t] \in 0..(gens[i].states - 1)
                       /\ Gt(matrix[regime[t - 1] + 1][regime[t] + 1], Zero)
                /\ matrix = Identity(2) => \A t \in 1..Len(regime) : regime[t] = 0

\* a regime-switching generator has returned three bars under a matrix with
\* zero entries that makes it leave state 0
C18_Witness ==
    \E i \in Instances :
        /\ RegimeGenerated(i)
        /\ gens[i].transition_matrix = Swap2
        /\ out[i].df.columns["regime"] = <<0, 1, 0>>

IsSymmetric(m) == \A a, b \in 1..Len(m) : m[a][b] = m[b][a]

\* positive leading minors, for a symmetric matrix of 2 rows
IsPositiveDefinite(m) ==
    /\ Gt(m[1][1], Zero)
    /\ Gt(Sub(Mul(m[1][1], m[2][2]), Mul(m[1][2], m[2][1])), Zero)

\* a correlation matrix that is not valid for n assets
InvalidCorrelation(m, n) ==
    \/ ~HasShape(m, n)
    \/ ~IsSymmetric(m)
    \/ ~IsPositiveDefinite(m)

\* C19: with a correlation matrix invalid for its N assets (wrong shape, not
\* symmetric or not positive-definite) the multi-asset generator works on the
\* identity matrix, and generate() does not raise and returns a full series
\* for all N assets
C19_InvalidMatrixFallsBack ==
    \A i \in Instances :
        (/\ gens[i] # NoGen
         /\ gens[i].type = "multi_asset"
         /\ gens[i].length >= 1
         /\ InvalidCorrelation(gens[i].config.correlation_matrix, gens[i].num_assets)) =>
            /\ gens[i].correlation_matrix = Identity(gens[i].num_assets)
            /\ calls[i] > 0 =>
                   /\ out[i].status = "ok"
                   /\ \A a \in Assets(gens[i]) :
                          Len(out[i].df.columns[Field(gens[i], a, "close")]) =
                              gens[i].length

\* C20: a generator configured with length < 1 is rejected with a
\* ConfigurationError, whatever its type, and returns no series
C20_ShortLengthRejected ==
    \A i \in Instances :
        (gens[i] # NoGen /\ gens[i].config.length < 1 /\ calls[i] > 0) =>
            out[i] = [status |-> "raised", error |-> "ConfigurationError"]

\* C21: under an unknown type string get_data_generator fails with an error in
\* both entry points; no generator is returned for it
C21_UnknownTypeFailsFast ==
    \A entry \in EntryPoints :
        (factory[entry] # NoResult /\ factory[entry].requested \notin CommandLineTypes) =>
            factory[entry].raised

\* C22: for each of the six type strings of the command line the factory
\* returns the generator of that model, and the two entry points agree
C22_FactoriesAgree ==
    \A entry \in EntryPoints :
        (factory[entry] # NoResult /\ factory[entry].requested \in CommandLineTypes) =>
            /\ ~factory[entry].raised
            /\ factory[entry].generator.type = factory[entry].requested
            /\ \A other \in EntryPoints :
                   (/\ factory[other] # NoResult
                    /\ factory[other].requested = factory[entry].requested) =>
                       factory[other].raised = factory[entry].raised

\* the value calculate_metrics gives the configured metric on the series the
\* backtest of a trial produced
MetricOfTrial(config, trial) ==
    calculate_metrics(trial.env.portfolio_value,
                      DailyIndex(Len(trial.env.portfolio_value)), Zero,
                      PeriodsPerYear(config.data_generator.frequency))[config.metric]

\* the run has written the results file
FileWritten ==
    /\ optimization # NoResult
    /\ optimization.study # <<>>

\* C23: every metric value in the results file, best_value and the value of
\* each trial record, is the configured metric of the dictionary
\* calculate_metrics returned for that trial's series
C23_ValuesFromCalculateMetrics ==
    FileWritten =>
        /\ \A r \in 1..Len(results_file.trial_records) :
               results_file.trial_records[r].value =
                   MetricOfTrial(optimization.config,
                                 optimization.study[results_file.trial_records[r].number + 1])
        /\ results_file.best_value # NotAvailable =>
               \E t \in 1..Len(optimization.study) :
                   results_file.best_value =
                       MetricOfTrial(optimization.config, optimization.study[t])

\* instance i is a stress-test generator in mode `event` whose generate()
\* has been called
StressCalled(i, event) ==
    /\ calls[i] > 0
    /\ gens[i].type = "stress_test"
    /\ gens[i].event_type = event

\* the phases of a call on `length` bars configured with `duration` and
\* `after`, which ran with used_duration and used_after and came out as o
PhasesAsConfigured(length, duration, after, used_duration, used_after, o) ==
    IF length - duration - after < MinNormalDays
    THEN /\ used_duration = length \div 3
         /\ used_after = length - 2 * (length \div 3)
         /\ (length \div 3) + used_duration + used_after = length
         /\ length \div 3 >= 1
         /\ used_duration >= 1
         /\ used_after >= 1
         /\ o.status = "ok"
    ELSE /\ used_duration = duration
         /\ used_after = after

\* C24: in crash and rally modes, when length - duration - recovery is below
\* 10 the phases are floor(length/3), floor(length/3) and the rest, they
\* sum to length, each holds at least one bar for every length >= 1 and
\* generation completes; otherwise the configured durations are used
C24_PhasesResplit ==
    \A i \in Instances :
        /\ StressCalled(i, "crash") =>
               PhasesAsConfigured(gens[i].length, gens[i].config.crash_duration,
                                  gens[i].config.crash_recovery,
                                  gens[i].crash_duration, gens[i].crash_recovery,
                                  out[i])
        /\ StressCalled(i, "rally") =>
               PhasesAsConfigured(gens[i].length, gens[i].config.rally_duration,
                                  gens[i].config.rally_correction,
                                  gens[i].rally_duration, gens[i].rally_correction,
                                  out[i])

\* a saved results file exists and can be parsed
SavedAndReadable(file) == file # NoFile /\ file # CorruptFile

\* C26: without force_optimize and with a readable saved results file,
\* optimize runs no trial, the file stays as it was and run_optimization
\* returns the saved best_value and best_params; with force_optimize the
\* configured number of trials is run and the file holds the new results
C26_SavedResultsUnlessForced ==
    optimization # NoResult =>
        /\ (~optimization.force_optimize /\ SavedAndReadable(optimization.file_before)) =>
               /\ optimization.study = <<>>
               /\ results_file = optimization.file_before
               /\ ~optimization.returned.raised
               /\ optimization.returned.best_value = optimization.file_before.best_value
               /\ optimization.returned.best_params = optimization.file_before.best_params
        /\ optimization.force_optimize =>
               /\ Len(optimization.study) = optimization.config.trials
               /\ results_file =
                      SavedResults(optimization.config, optimization.study,
                                   BestTrial(optimization.config.direction,
                                             optimization.study))

\* the price a regime-switching generator seeded with `seed` draws for bar t
\* (bars counted from 1) out of the price before it, were the return drawn
\* with the (drift, volatility) pair of `state`
MoveUnder(self, state, price, t) ==
    RegimeStep(price, self.regime_params[state + 1],
               StateAfter(SeedState(self.seed), 2 * (t - 1) - 1))

\* C25: the regime label of a bar after the first is the state whose (drift,
\* volatility) pair drew the return from the bar before it to that bar
C25_LabelIsRegimeOfMove ==
    \A i \in Instances :
        RegimeGenerated(i) /\ calls[i] = 1 =>
            \A t \in 2..gens[i].length :
                Cell(i, 0, "close", t) =
                    MoveUnder(gens[i], Cell(i, 0, "regime", t),
                              Cell(i, 0, "close", t - 1), t)

\* every order the broker was given has got its final status
AllOrdersFinal == broker.orders # <<>> /\ AliveOrders(broker) = {}

\* the latest bar showed the signal the position calls for: an entry that
\* can be paid for when flat, an exit when holding
SignalForPosition ==
    \/ ~HasPosition(last_next.position_before) /\ last_next.entry /\ last_next.size > 0
    \/ HasPosition(last_next.position_before) /\ last_next.exit

\* C27: in each strategy, once the outstanding order has a final status the
\* pending-order marker is cleared, and a later bar with an entry or exit
\* signal leads to a new order
C27_MarkerClearedThenNewOrder ==
    strategy # NoResult =>
        /\ AllOrdersFinal => strategy.order = NoOrder
        /\ (last_next # NoResult /\ ~last_next.alive_before /\ SignalForPosition) =>
               last_next.submitted

\* C28: next() submits no order while an earlier one has no final status,
\* so at most one order of the strategy is outstanding at any time
C28_OneOutstandingOrder ==
    strategy # NoResult =>
        /\ Cardinality(AliveOrders(broker)) <= 1
        /\ (last_next # NoResult /\ last_next.alive_before) => ~last_next.submitted

\* a bar with a signal came while an order was outstanding, and next()
\* submitted nothing
C28_Witness ==
    /\ strategy # NoResult
    /\ strategy.cls = "SampleStrategy"
    /\ last_next # NoResult
    /\ last_next.alive_before
    /\ last_next.exit
    /\ broker.position > 0
    /\ ~last_next.submitted

\* the order of the latest next() call is a buy of a size above 0 made
\* when flat, or a sell of the whole position made when holding
LongOnlyOrder(call) ==
    IF call.order.isbuy
    THEN call.position_before = 0 /\ call.order.size > 0
    ELSE call.position_before > 0 /\ call.order.size = call.position_before

\* C29: every strategy is long-only: it buys only when flat and with
\* size > 0, sells only when holding and exactly the held size, and the
\* position is never negative
C29_LongOnly ==
    strategy # NoResult =>
        /\ broker.position >= 0
        /\ (last_next # NoResult /\ last_next.submitted) => LongOnlyOrder(last_next)

\* a strategy has bought, sold all it held and is flat again
C29_Witness ==
    /\ strategy # NoResult
    /\ broker.position = 0
    /\ \E j, k \in 1..Len(broker.orders) :
           /\ j < k
           /\ broker.orders[j].isbuy /\ broker.orders[j].status = "Completed"
           /\ ~broker.orders[k].isbuy /\ broker.orders[k].status = "Completed"
           /\ broker.orders[k].size = broker.orders[j].size

\* C30: generate() leaves the configuration of a stress-test generator alone:
\* after any number of calls crash_duration, crash_recovery, rally_duration
\* and rally_correction are the configured values
C30_DurationsKeepConfigured ==
    \A i \in Instances :
        (calls[i] > 0 /\ gens[i].type = "stress_test") =>
            /\ gens[i].crash_duration = gens[i].config.crash_duration
            /\ gens[i].crash_recovery = gens[i].config.crash_recovery
            /\ gens[i].rally_duration = gens[i].config.rally_duration
            /\ gens[i].rally_correction = gens[i].config.rally_correction

-----------------------------------------------------------------------------
(* The metrics engine as a state machine: a caller holds a portfolio value *)
(* series and calls calculate_metrics on it.                               *)

MaxPoints == 3

PvValues == {NaN, Fin(-100), Zero, Fin(50), Fin(100)}

\* spacing of the timestamps of the input series, in days
IndexSteps == {1, 7}

\* periods_map of the callers: daily and hourly bars
PeriodsChoices == {252, 252 * 24}

MetricsInit ==
    /\ portfolio_values \in SeqsUpTo(PvValues, MaxPoints)
    /\ \E step \in IndexSteps :
          pv_index = [i \in 1..Len(portfolio_values) |-> (i - 1) * step]
    /\ periods_per_year \in PeriodsChoices
    /\ metrics = NoResult
    /\ returns_arg = <<>>
    /\ returned = NoRatios
    /\ np_state = 1
    /\ py_state = PyUnread
    /\ gens = [i \in Instances |-> NoGen]
    /\ base_data = [i \in Instances |-> NoFrame]
    /\ out = [i \in Instances |-> NoResult]
    /\ calls = [i \in Instances |-> 0]
    /\ feed = [i \in Instances |-> NoResult]
    /\ SystemIdle

CalculateMetrics ==
    /\ metrics = NoResult
    /\ metrics' = calculate_metrics(portfolio_values, pv_index, Zero, periods_per_year)
    /\ UNCHANGED <<portfolio_values, pv_index, periods_per_year, returns_arg, returned, genVars, systemVars>>

\* calculate_max_drawdown called on the series
CallMaxDrawdown ==
    /\ returned["max_drawdown"] = NoResult
    /\ returned' = [returned EXCEPT !["max_drawdown"] = calculate_max_drawdown(portfolio_values)]
    /\ UNCHANGED <<portfolio_values, pv_index, periods_per_year, metrics, returns_arg, genVars, systemVars>>

\* calculate_cagr called on the series
CallCagr ==
    /\ returned["cagr"] = NoResult
    /\ returned' = [returned EXCEPT !["cagr"] =
                     calculate_cagr(portfolio_values, pv_index, periods_per_year)]
    /\ UNCHANGED <<portfolio_values, pv_index, periods_per_year, metrics, returns_arg, genVars, systemVars>>

\* calculate_sortino_ratio called on the returns calculate_metrics works on,
\* with the default risk_free_rate and target_return
SortinoOfValues ==
    /\ returned["sortino_ratio"] = NoResult
    /\ returns_arg' = fillna(pct_change(bfill(ffill(portfolio_values))), Zero)
    /\ returned' = [returned EXCEPT !["sortino_ratio"] =
                        [value |-> calculate_sortino_ratio(returns_arg', Zero,
                                                           periods_per_year, Zero),
                         risk_free_rate |-> Zero, target_return |-> Zero]]
    /\ UNCHANGED <<portfolio_values, pv_index, periods_per_year, metrics, genVars, systemVars>>

MetricsNext == CalculateMetrics \/ CallMaxDrawdown \/ CallCagr \/ SortinoOfValues

-----------------------------------------------------------------------------
(* The ratio functions called on a returns series                          *)

ReturnValues == {NaN, Q(-1, 2), Q(-1, 4), Zero, Q(1, 2), Q(3, 4)}

\* annual rates: 126 / 252 is one half per period
RiskFreeRates == {Zero, Fin(126)}

TargetReturns == {Zero, Fin(-126)}

RatiosInit ==
    /\ GenInit
    /\ portfolio_values = <<>>
    /\ pv_index = <<>>
    /\ periods_per_year \in PeriodsChoices
    /\ metrics = NoResult
    /\ returns_arg \in SeqsUpTo(ReturnValues, MaxPoints)
    /\ returned = NoRatios

CallSharpe(risk_free_rate) ==
    /\ returned["sharpe_ratio"] = NoResult
    /\ returned' = [returned EXCEPT !["sharpe_ratio"] =
                        [value |-> calculate_sharpe_ratio(returns_arg, risk_free_rate,
                                                          periods_per_year),
                         risk_free_rate |-> risk_free_rate, target_return |-> Zero]]
    /\ UNCHANGED <<portfolio_values, pv_index, periods_per_year, metrics, returns_arg,
                   genVars, systemVars>>

CallSortino(risk_free_rate, target_return) ==
    /\ returned["sortino_ratio"] = NoResult
    /\ returned' = [returned EXCEPT !["sortino_ratio"] =
                        [value |-> calculate_sortino_ratio(returns_arg, risk_free_rate,
                                                           periods_per_year, target_return),
                         risk_free_rate |-> risk_free_rate,
                         target_return |-> target_return]]
    /\ UNCHANGED <<portfolio_values, pv_index, periods_per_year, metrics, returns_arg,
                   genVars, systemVars>>

RatiosNext ==
    \/ \E rf \in RiskFreeRates : CallSharpe(rf)
    \/ \E rf \in RiskFreeRates, tr \in TargetReturns : CallSortino(rf, tr)

SpecRatios == RatiosInit /\ [][RatiosNext]_vars

SpecMetrics == MetricsInit /\ [][MetricsNext]_vars

IsZeroVal(v) == v.k = "fin" /\ v.n = 0

AllNaN(s) == \A i \in 1..Len(s) : IsNaN(s[i])

\* C11: to_bt_feed and generate() leave the frame passed to them as it was:
\* the same index, the same columns, the same values
C11_InputFrameUnchanged ==
    \A i \in Instances :
        feed[i] # NoResult => feed[i].data = feed[i].passed

\* every value of the series is a positive number
AllPositive(s) == \A t \in 1..Len(s) : Gt(s[t], Zero)

\* the highest value among the first t
RECURSIVE RunningMax(_, _)
RunningMax(s, t) == IF t = 1 THEN s[1] ELSE max2(RunningMax(s, t - 1), s[t])

\* the relative decline of value t from the running maximum
Decline(s, t) == Div(Sub(RunningMax(s, t), s[t]), RunningMax(s, t))

\* C12: for a series of at least 2 positive values calculate_max_drawdown is
\* the largest relative decline from a running maximum, a fraction in [0, 1):
\* 0.0 for a non-decreasing series and 0.5 for [100, 50, 100]
C12_LargestDecline ==
    (/\ returned["max_drawdown"] # NoResult
     /\ Len(portfolio_values) >= 2
     /\ AllPositive(portfolio_values)) =>
        LET dd == returned["max_drawdown"]
            Bars12 == 1..Len(portfolio_values)
        IN  /\ \E t \in Bars12 : dd = Decline(portfolio_values, t)
            /\ \A t \in Bars12 : Ge(dd, Decline(portfolio_values, t))
            /\ Ge(dd, Zero) /\ Lt(dd, One)
            /\ (\A t \in Bars12 : t > 1 =>
                    Ge(portfolio_values[t], portfolio_values[t - 1])) => dd = Zero
            /\ portfolio_values = <<Fin(100), Fin(50), Fin(100)>> => dd = Q(1, 2)

\* calculate_max_drawdown has returned for [100, 50, 100]
C12_Witness ==
    /\ returned["max_drawdown"] # NoResult
    /\ portfolio_values = <<Fin(100), Fin(50), Fin(100)>>

\* the excess returns of the recorded calculate_sortino_ratio call
Excess13 ==
    ExcessOf(returns_arg, returned["sortino_ratio"].target_return, periods_per_year)

\* no downside observation, or a downside standard deviation that is zero or
\* undefined
NoDownsideDeviation(excess_returns) ==
    \/ DownsideOf(excess_returns) = <<>>
    \/ Len(DownsideOf(excess_returns)) = 1
    \/ Eq(var(DownsideOf(excess_returns)), Zero)

\* C13: for every non-empty returns series calculate_sortino_ratio returns a
\* finite number or the positive-infinity sentinel, never NaN; without a
\* usable downside deviation it is the sentinel when the mean excess return
\* is positive and 0.0 otherwise
C13_SortinoNeverNaN ==
    (returned["sortino_ratio"] # NoResult /\ returns_arg # <<>>) =>
        LET v == returned["sortino_ratio"].value
        IN  /\ IsFinite(v) \/ v = PInf
            /\ NoDownsideDeviation(Excess13) =>
                    v = IF Gt(mean(Excess13), Zero) THEN PInf ELSE Zero

\* C14: for the same returns series, with risk_free_rate and target_return 0,
\* calculate_sortino_ratio and the sortino_ratio entry of calculate_metrics
\* are the same value, the no-downside sentinel included
C14_SameSortino ==
    (/\ metrics # NoResult
     /\ returned["sortino_ratio"] # NoResult
     /\ Len(portfolio_values) >= 2) =>
        metrics["sortino_ratio"] = returned["sortino_ratio"].value

\* all the returns are one value
AllEqual(s) == \A i, j \in 1..Len(s) : s[i] = s[j]

\* C15: whenever all returns are equal, or there are fewer than 2 of them,
\* calculate_sharpe_ratio returns exactly 0.0, whatever the risk_free_rate and
\* periods_per_year
C15_ConstantSharpeZero ==
    (/\ returned["sharpe_ratio"] # NoResult
     /\ Len(returns_arg) < 2 \/ AllEqual(returns_arg)) =>
        returned["sharpe_ratio"].value = Zero

\* calculate_cagr has returned for a series of two or more positive values
CagrReturned ==
    /\ returned["cagr"] # NoResult
    /\ Len(portfolio_values) >= 2
    /\ AllPositive(portfolio_values)

\* end_value / start_value - 1
Growth16 ==
    Sub(Div(portfolio_values[Len(portfolio_values)], portfolio_values[1]), One)

\* C16 as stated: calculate_cagr counts the years in bars, number of points /
\* periods_per_year, whatever the spacing of the timestamps
C16_YearsByBarCount ==
    CagrReturned =>
        returned["cagr"] =
            CagrVal(Growth16, Q(Len(portfolio_values), periods_per_year))

\* C16: calculate_cagr counts the years on the clock, (last timestamp - first
\* timestamp) / 365.25 days, whatever periods_per_year and the number of points
C16_YearsByElapsedTime ==
    CagrReturned =>
        returned["cagr"] =
            CagrVal(Growth16,
                    Q(4 * (pv_index[Len(pv_index)] - pv_index[1]), 1461))

\* calculate_cagr has returned for a series that doubles over two weekly bars,
\* called with the hourly periods_per_year
C16_Witness ==
    /\ returned["cagr"] # NoResult
    /\ portfolio_values = <<Fin(50), Fin(100)>>
    /\ pv_index = <<0, 7>>
    /\ periods_per_year = 252 * 24

\* C3: for every series of at least 2 points (zero, negative and NaN values
\* included) calculate_metrics returns the six keys, every value finite
C3_AllMetricsFinite ==
    (metrics # NoResult /\ Len(portfolio_values) >= 2) =>
        /\ DOMAIN metrics = MetricKeys
        /\ \A key \in MetricKeys : IsFinite(metrics[key])

\* C4: for an empty series and for a series of exactly one point
\* calculate_metrics returns exactly the six keys, each equal to 0.0
C4_DegenerateAllZero ==
    (metrics # NoResult /\ Len(portfolio_values) <= 1) =>
        /\ DOMAIN metrics = MetricKeys
        /\ \A key \in MetricKeys : IsZeroVal(metrics[key])

\* calculate_metrics has returned for a series of one point
C4_Witness ==
    /\ metrics # NoResult
    /\ Len(portfolio_values) = 1
    /\ portfolio_values[1] = Zero

\* C5: a series of 2 or more points whose values are all NaN is degenerate:
\* calculate_metrics returns the all-zero dictionary
C5_AllNaNAllZero ==
    (metrics # NoResult /\ Len(portfolio_values) >= 2 /\ AllNaN(portfolio_values)) =>
        \A key \in MetricKeys : IsZeroVal(metrics[key])

=============================================================================
